---- MODULE Spec2Model ----
(***************************************************************************)
(* A model of the binary decode path of the e57 reader: the paged byte     *)
(* view (mmap_paged::read, index_mmap), the packet walker                  *)
(* (Position::load_next), the integer loaders (IntLoader,                  *)
(* ByteStreamReadBuffer), the point iterator (PointCloudReader), the       *)
(* checksummed page reader (PagedReader, Crc32, E57::validate_crc) and     *)
(* two iterators sharing the scratch buffer of index_mmap.                 *)
(*                                                                         *)
(* 64-bit machine integers are modelled as bit vectors: sequences of 64    *)
(* bits, least significant bit first (index 1 is bit 0).  Offsets and      *)
(* lengths that stay small are plain integers.                             *)
(***************************************************************************)
EXTENDS Integers, Sequences, FiniteSets, TLC

VARIABLES rd, mp, bs, it, e57, tw, hd, pw, wd, pr

vars == <<rd, mp, bs, it, e57, tw, hd, pw, wd, pr>>

\* A subsystem that takes no part in the specification being checked.
Idle == [pc |-> "idle"]

Min(a, b) == IF a <= b THEN a ELSE b

\* F(v), with v evaluated once however often F uses it.
Once(v, F(_)) == CHOOSE out \in {F(x) : x \in {v}} : TRUE

Builds == {"debug", "release"}

(***************************************************************************)
(* Page geometry                                                           *)
(***************************************************************************)
ALIGNMENT_SIZE == 4

PHYSICAL_PAGE_SIZE == 1024

LOGICAL_PAGE_SIZE == PHYSICAL_PAGE_SIZE - ALIGNMENT_SIZE

\* pc_reader.rs: fn logic_to_phys(pos) = pos + (pos / 1020) * 4
logic_to_phys_mut(pos) == pos + (pos \div PHYSICAL_PAGE_SIZE) * 4

logic_to_phys(pos) == pos + (pos \div 1020) * 4

\* pc_reader/mod.rs, PointCloudReader::new:
\*   let logical_offset = logical_offset - (logical_offset / 1024) * 4;
phys_to_logic(p) == p - (p \div 1024) * 4

(***************************************************************************)
(* mmap_paged::read, one pass of its while loop.  The destination is       *)
(* modelled by the list of physical positions whose bytes were copied.     *)
(***************************************************************************)
\* 1020 - offset % 1024 on usize: underflows when offset % 1024 > 1020.
ReadUnderflows(offset) == (offset % 1024) > 1020

ReadAvaible_mut(len, offset) == Min(len, 1024 - (offset % 1024))

ReadAvaible(len, offset) == Min(len, 1020 - (offset % 1024))

\* &mmap[offset..(offset + avaible)]
MmapRange(offset, n) == [i \in 1..n |-> offset + i - 1]

ReadNextOffset(avaible, offset) == offset + avaible + 4

(***************************************************************************)
(* Specification SpecRead: mmap_paged::read(view, offset, mmap), stepped   *)
(* one loop pass at a time.                                                *)
(*   rd.view   the length of the part of the destination still to fill     *)
(*   rd.dst    the physical positions copied into the destination so far   *)
(*   rd.offset the physical read cursor                                    *)
(***************************************************************************)
MaxReadPages == 2

\* In-page positions 1020 and 1022 lie in the checksum tail of a page.
ReadStarts == {0, 48, 1000, 1019, 1020, 1022, 1024, 1500, 2043}

ReadLens ==
    {0, 1, 2, 32} \cup
    {k * LOGICAL_PAGE_SIZE + d : k \in 1..MaxReadPages, d \in {-1, 0, 1}}

InitRead ==
    /\ rd \in [pc : {"loop"}, start : ReadStarts, n : ReadLens, view : ReadLens,
               dst : {<<>>}, offset : ReadStarts, build : Builds]
    /\ rd.view = rd.n
    /\ rd.offset = rd.start
    /\ mp = Idle
    /\ bs = Idle
    /\ it = Idle
    /\ e57 = Idle
    /\ tw = Idle
    /\ hd = Idle
    /\ pw = Idle
    /\ wd = Idle
    /\ pr = Idle

\* One pass of `while !view.is_empty()` whose subtraction does not underflow.
ReadPass ==
    /\ rd.pc = "loop"
    /\ rd.view > 0
    /\ ~ReadUnderflows(rd.offset)
    /\ LET avaible == ReadAvaible(rd.view, rd.offset)
       IN  rd' = [rd EXCEPT !.dst = rd.dst \o MmapRange(rd.offset, avaible),
                            !.view = rd.view - avaible,
                            !.offset = ReadNextOffset(avaible, rd.offset)]
    /\ UNCHANGED <<mp, bs, it, e57, tw, hd, pw, wd, pr>>

\* 1020 - offset % 1024 underflows: a debug build panics, a release build
\* wraps to a huge count, so min() is the whole remaining view.
ReadPassUnderflow ==
    /\ rd.pc = "loop"
    /\ rd.view > 0
    /\ ReadUnderflows(rd.offset)
    /\ IF rd.build = "debug"
       THEN rd' = [rd EXCEPT !.pc = "panic"]
       ELSE rd' = [rd EXCEPT !.dst = rd.dst \o MmapRange(rd.offset, rd.view),
                             !.view = 0,
                             !.offset = ReadNextOffset(rd.view, rd.offset)]
    /\ UNCHANGED <<mp, bs, it, e57, tw, hd, pw, wd, pr>>

\* The loop condition fails: read returns.
ReadReturn ==
    /\ rd.pc = "loop"
    /\ rd.view = 0
    /\ rd' = [rd EXCEPT !.pc = "done"]
    /\ UNCHANGED <<mp, bs, it, e57, tw, hd, pw, wd, pr>>

NextRead == ReadPass \/ ReadPassUnderflow \/ ReadReturn

SpecRead == InitRead /\ [][NextRead]_vars

\* The whole call, as its callers use it: the positions read for `len`
\* destination bytes from `offset` (no underflow on the way).
RECURSIVE read(_, _)
read(len, offset) ==
    IF len = 0 THEN <<>>
    ELSE LET avaible == ReadAvaible(len, offset)
         IN  MmapRange(offset, avaible)
                 \o read(len - avaible, ReadNextOffset(avaible, offset))

\* The k-th payload byte (k = 0, 1, ...) at or after physical position
\* `start`, counted without the 4 checksum bytes that end every page.
NthPayload(start, k) ==
    start + k + 4 * (((start % 1024) + k) \div 1020)

InPayload(p) == (p % 1024) < 1020

\* C3: from a start inside a page's payload, read terminates with all N
\* destination bytes filled by the consecutive payload bytes after the start,
\* the 4 checksum bytes of every crossed page skipped, and never copies a
\* checksum byte: every pass with bytes left to fill copies at least one
\* byte, and the bytes copied are the payload bytes in order.
ReadFillsPayload ==
    InPayload(rd.start) /\ rd.pc \in {"loop", "done"} =>
        /\ rd.pc # "panic"
        /\ Len(rd.dst) + rd.view = rd.n
        /\ \A i \in 1..Len(rd.dst) :
               /\ rd.dst[i] = NthPayload(rd.start, i - 1)
               /\ InPayload(rd.dst[i])
        /\ rd.pc = "loop" /\ rd.view > 0 =>
               /\ ~ReadUnderflows(rd.offset)
               /\ ReadAvaible(rd.view, rd.offset) >= 1
        /\ rd.pc = "done" => Len(rd.dst) = rd.n

\* A read that started mid-page, crossed two page ends and is complete.
ReadCrossedPages ==
    /\ rd.pc = "done"
    /\ rd.start = 1019
    /\ rd.n = 2 * LOGICAL_PAGE_SIZE + 1
    /\ rd.dst[1] = 1019
    /\ rd.dst[2] = 1024
    /\ rd.dst[rd.n] = 3 * PHYSICAL_PAGE_SIZE - 5

(***************************************************************************)
(* Specification SpecMap: the logical/physical offset conversions applied  *)
(* to one logical offset.                                                  *)
(***************************************************************************)
MaxLogical == 3100

InitMap ==
    /\ mp \in [pc : {"logical"}, L : 0..MaxLogical, phys : {0}, back : {0}]
    /\ rd = Idle
    /\ bs = Idle
    /\ it = Idle
    /\ e57 = Idle
    /\ tw = Idle
    /\ hd = Idle
    /\ pw = Idle
    /\ wd = Idle
    /\ pr = Idle

MapToPhys ==
    /\ mp.pc = "logical"
    /\ mp' = [mp EXCEPT !.pc = "physical", !.phys = logic_to_phys(mp.L)]
    /\ UNCHANGED <<rd, bs, it, e57, tw, hd, pw, wd, pr>>

MapToLogic ==
    /\ mp.pc = "physical"
    /\ mp' = [mp EXCEPT !.pc = "done", !.back = phys_to_logic(mp.phys)]
    /\ UNCHANGED <<rd, bs, it, e57, tw, hd, pw, wd, pr>>

NextMap == MapToPhys \/ MapToLogic

SpecMap == InitMap /\ [][NextMap]_vars

\* C4: the physical offset of every logical offset L lies in a page's
\* payload, and the conversion PointCloudReader::new applies maps it back
\* to L.
LogicalPhysicalRoundTrip ==
    /\ mp.pc \in {"physical", "done"} => (mp.phys % 1024) < 1020
    /\ mp.pc = "done" => mp.back = mp.L

\* A logical offset on the third page went there and back.
MapRoundTripDone ==
    /\ mp.pc = "done"
    /\ mp.L = 2 * LOGICAL_PAGE_SIZE
    /\ mp.phys = 2 * PHYSICAL_PAGE_SIZE
    /\ mp.back = mp.L

(***************************************************************************)
(* 64-bit machine integers as bit vectors (index 1 is bit 0).  An i64 is   *)
(* its two's complement bit pattern.                                       *)
(***************************************************************************)
U64_BITS == 64

Bits64 == 1..U64_BITS

Zero64 == [i \in Bits64 |-> 0]

\* The bit vector of a natural number below 2^30.
FromNat(n) == [i \in Bits64 |-> IF i <= 30 THEN (n \div (2 ^ (i - 1))) % 2 ELSE 0]

\* 2^k - 1: the k low bits set.
Ones(k) == [i \in Bits64 |-> IF i <= k THEN 1 ELSE 0]

Not64(a) == [i \in Bits64 |-> 1 - a[i]]

RECURSIVE AddCarry(_, _, _, _)
AddCarry(a, b, i, c) ==
    IF i > U64_BITS THEN <<>>
    ELSE LET s == a[i] + b[i] + c
         IN  <<s % 2>> \o AddCarry(a, b, i + 1, s \div 2)

wrapping_add(a, b) == AddCarry(a, b, 1, 0)

wrapping_sub(a, b) == AddCarry(a, Not64(b), 1, 1)

IsNeg(a) == a[U64_BITS] = 1

\* i64 overflow of a + b and of a - b.
AddOverflows(a, b) ==
    IsNeg(a) = IsNeg(b) /\ IsNeg(wrapping_add(a, b)) # IsNeg(a)

SubOverflows(a, b) ==
    IsNeg(a) # IsNeg(b) /\ IsNeg(wrapping_sub(a, b)) # IsNeg(a)

SetMax(S) == CHOOSE x \in S : \A y \in S : y <= x

leading_zeros(a) ==
    IF a = Zero64 THEN U64_BITS
    ELSE U64_BITS - SetMax({i \in Bits64 : a[i] = 1})

\* a <= b as u64 and as i64.
ULe(a, b) ==
    \/ a = b
    \/ b[SetMax({i \in Bits64 : a[i] # b[i]} \cup {1})] > a[SetMax({i \in Bits64 : a[i] # b[i]} \cup {1})]

SLe(a, b) == IF IsNeg(a) # IsNeg(b) THEN IsNeg(a) ELSE ULe(a, b)

\* a >> k for k < 64, and a & b.
Shr(a, k) == [i \in Bits64 |-> IF i + k <= U64_BITS THEN a[i + k] ELSE 0]

And64(a, b) == [i \in Bits64 |-> a[i] * b[i]]

\* The 8 bits of a byte, and u64::from_le_bytes of 8 bytes.
from_le_bytes(tmp) ==
    [i \in Bits64 |-> (tmp[((i - 1) \div 8) + 1] \div (2 ^ ((i - 1) % 8))) % 2]

\* `v as u8`: the low 8 bits as a number.
AsU8(a) == a[1] + 2 * a[2] + 4 * a[3] + 8 * a[4] + 16 * a[5] + 32 * a[6]
               + 64 * a[7] + 128 * a[8]

\* max - min on i64: a debug build panics on overflow, a release build wraps.
RangeOf(min, max, build) ==
    [ok |-> ~(build = "debug" /\ SubOverflows(max, min)), v |-> wrapping_sub(max, min)]

\* u64::BITS - range.leading_zeros()
BitsOf(range) == U64_BITS - leading_zeros(range)

\* (1u64 << bits) - 1: shifting by 64 panics in a debug build and shifts by
\* 64 % 64 = 0 in a release build, which makes the mask 0.
MaskOf(bits, build) ==
    [ok |-> ~(build = "debug" /\ bits >= U64_BITS),
     v  |-> IF bits >= U64_BITS THEN Zero64 ELSE Ones(bits)]

\* uint_value as i64 + min
IntValueOf(uint, min, build) ==
    [ok |-> ~(build = "debug" /\ AddOverflows(uint, min)), v |-> wrapping_add(uint, min)]

\* (u64::from_le_bytes(tmp) >> offset) & mask
UintValueOf(tmp, offset, mask) == And64(Shr(from_le_bytes(tmp), offset), mask)

EndOffset(offset, bits) == (offset + bits + 7) \div 8

UsedOffset_mut(offset, bits) == (offset + bits + 7) \div 8

UsedOffset(offset, bits) == (offset + bits) \div 8

TMP_LEN == 8

ZeroTmp == [i \in 1..TMP_LEN |-> 0]

(***************************************************************************)
(* ByteStreamReadBuffer (bs_read.rs): a queue of bytes and the bit offset  *)
(* into its front byte.                                                    *)
(***************************************************************************)
\* ByteStreamReadBuffer::new
NewBuffer == [buffer |-> <<>>, offset |-> 0]

\* ByteStreamReadBuffer::append
append(b, data) == [b EXCEPT !.buffer = b.buffer \o data]

\* ByteStreamReadBuffer::available
available(b) == Len(b.buffer) * 8 - b.offset

\* ByteStreamReadBuffer::extract_int(min, max).  The result is
\*   none   too few bits: the buffer is left as it was,
\*   panic  an arithmetic overflow of a debug build or an index past tmp,
\*   some   a value, with the wholly used bytes popped from the front.
extract_int(b, min, max, build) ==
    LET range == RangeOf(min, max, build)
        bits == BitsOf(range.v)
        mask == MaskOf(bits, build)
        end_offset == EndOffset(b.offset, bits)
        used_offset == UsedOffset(b.offset, bits)
        tmp == [i \in 1..TMP_LEN |-> IF i <= end_offset THEN b.buffer[i] ELSE 0]
        int == IntValueOf(UintValueOf(tmp, b.offset, mask.v), min, build)
    IN  IF ~range.ok THEN [kind |-> "panic", v |-> Zero64, b |-> b]
        ELSE IF available(b) < bits THEN [kind |-> "none", v |-> Zero64, b |-> b]
        ELSE IF ~mask.ok \/ end_offset > TMP_LEN \/ ~int.ok
             THEN [kind |-> "panic", v |-> Zero64, b |-> b]
        ELSE [kind |-> "some", v |-> int.v,
              b |-> [buffer |-> SubSeq(b.buffer, used_offset + 1, Len(b.buffer)),
                     offset |-> (b.offset + bits) % 8]]

\* ByteStreamReadBuffer::extract_f32 and extract_f64: `size` bytes popped
\* from the front, whatever the bit offset; the value is their bit pattern.
extract_float(b, size) ==
    IF available(b) < 8 * size THEN [kind |-> "none", v |-> Zero64, b |-> b]
    ELSE [kind |-> "some",
          v |-> SubSeq(from_le_bytes([i \in 1..TMP_LEN |->
                                         IF i <= size THEN b.buffer[i] ELSE 0]),
                       1, U64_BITS),
          b |-> [b EXCEPT !.buffer = SubSeq(b.buffer, size + 1, Len(b.buffer))]]

extract_f32(b) == extract_float(b, 4)

extract_f64(b) == extract_float(b, 8)

(***************************************************************************)
(* Integer fields and values the specifications draw from.  A field is     *)
(* its declared [min, max] and the width in bits a writer packs it with    *)
(* (the number of bits of max - min).                                      *)
(***************************************************************************)
I64_MIN == [i \in Bits64 |-> IF i = U64_BITS THEN 1 ELSE 0]

I64_MAX == Ones(U64_BITS - 1)

Field(min, max, bits) == [min |-> min, max |-> max, bits |-> bits]

F1 == Field(Zero64, FromNat(1), 1)

F2 == Field(Zero64, FromNat(2), 2)

F3 == Field(wrapping_sub(Zero64, FromNat(3)), FromNat(4), 3)

F12 == Field(Zero64, FromNat(4095), 12)

F56 == Field(FromNat(5), wrapping_add(FromNat(5), Ones(56)), 56)

F63 == Field(Zero64, I64_MAX, 63)

F64 == Field(I64_MIN, I64_MAX, U64_BITS)

\* The values 0101..01 and 11..1 of a given width.
Alternating(bits) == [i \in Bits64 |-> IF i <= bits /\ i % 2 = 1 THEN 1 ELSE 0]

\* The bit stream of a sequence of <<field, value>>: each value's `bits`
\* low bits, least significant first, one value after the other.
RECURSIVE PackBits(_)
PackBits(plan) ==
    IF plan = <<>> THEN <<>>
    ELSE SubSeq(Head(plan).value, 1, Head(plan).field.bits) \o PackBits(Tail(plan))

\* The bytes of a bit stream, bit k of the stream being bit k % 8 of byte
\* k / 8; the last byte is filled up with zero bits.
BytesOfBits(stream) ==
    [j \in 1..((Len(stream) + 7) \div 8) |->
        LET bit(k) == IF 8 * (j - 1) + k <= Len(stream)
                      THEN stream[8 * (j - 1) + k] ELSE 0
        IN  bit(1) + 2 * bit(2) + 4 * bit(3) + 8 * bit(4) + 16 * bit(5)
                + 32 * bit(6) + 64 * bit(7) + 128 * bit(8)]

PackBytes(plan) == BytesOfBits(PackBits(plan))

(***************************************************************************)
(* Specification SpecBuf: a ByteStreamReadBuffer that is fed the packed    *)
(* bytes of a planned sequence of values, a byte or the whole rest at a    *)
(* time, while the values are extracted in order.                          *)
(*   bs.buffer, bs.offset   the ByteStreamReadBuffer                       *)
(*   bs.plan    the <<field, value>> sequence that was packed              *)
(*   bs.fed     the number of packed bytes appended so far                 *)
(*   bs.outs    the values extracted so far                                *)
(*   bs.last    the outcome of the latest call                             *)
(***************************************************************************)
MaxVals == 2

BufCases ==
    {[dtype |-> "Integer", field |-> F1, value |-> Ones(1)],
     [dtype |-> "Integer", field |-> F3, value |-> Alternating(3)],
     [dtype |-> "Integer", field |-> F3, value |-> FromNat(6)],
     [dtype |-> "Integer", field |-> F2, value |-> Ones(2)],
     [dtype |-> "Integer", field |-> F12, value |-> Alternating(12)],
     [dtype |-> "Integer", field |-> F56, value |-> Ones(56)],
     [dtype |-> "Integer", field |-> F56, value |-> Alternating(56)],
     [dtype |-> "Integer", field |-> F64, value |-> Alternating(U64_BITS)]}

\* A float is the 32 or 64 bits of its pattern.
FloatCases ==
    {[dtype |-> "Single", field |-> Field(Zero64, Zero64, 32), value |-> Alternating(32)],
     [dtype |-> "Double", field |-> Field(Zero64, Zero64, U64_BITS),
      value |-> Alternating(U64_BITS)],
     [dtype |-> "Double", field |-> Field(Zero64, Zero64, U64_BITS),
      value |-> Ones(U64_BITS - 2)]}

\* A byte stream holds integers or it holds floats.
BufPlans ==
    UNION {[1..n -> BufCases] \cup [1..n -> FloatCases] : n \in 1..MaxVals}

InitBuf ==
    /\ bs \in [pc : {"run"}, buffer : {NewBuffer.buffer}, offset : {NewBuffer.offset},
               build : Builds, plan : BufPlans, fed : {0}, outs : {<<>>},
               last : {"new"}, refused : {FALSE}]
    /\ rd = Idle
    /\ mp = Idle
    /\ it = Idle
    /\ e57 = Idle
    /\ tw = Idle
    /\ hd = Idle
    /\ pw = Idle
    /\ wd = Idle
    /\ pr = Idle

\* append(data) with the next byte, or with all the bytes not yet appended.
BufAppend ==
    /\ bs.pc = "run"
    /\ \E k \in {1, Len(PackBytes(bs.plan)) - bs.fed} :
          /\ k >= 1
          /\ bs.fed + k <= Len(PackBytes(bs.plan))
          /\ LET data == SubSeq(PackBytes(bs.plan), bs.fed + 1, bs.fed + k)
                 b == append([buffer |-> bs.buffer, offset |-> bs.offset], data)
             IN  bs' = [bs EXCEPT !.buffer = b.buffer, !.offset = b.offset,
                                  !.fed = bs.fed + k, !.last = "append"]
    /\ UNCHANGED <<rd, mp, it, e57, tw, hd, pw, wd, pr>>

\* extract_int(min, max) for the next planned field.
BufExtractInt ==
    /\ bs.pc = "run"
    /\ Len(bs.outs) < Len(bs.plan)
    /\ bs.plan[Len(bs.outs) + 1].dtype = "Integer"
    /\ LET f == bs.plan[Len(bs.outs) + 1].field
           r == extract_int([buffer |-> bs.buffer, offset |-> bs.offset],
                            f.min, f.max, bs.build)
       IN  bs' = [bs EXCEPT !.buffer = r.b.buffer, !.offset = r.b.offset,
                            !.pc = IF r.kind = "panic" THEN "panic" ELSE "run",
                            !.outs = IF r.kind = "some"
                                     THEN Append(bs.outs, r.v) ELSE bs.outs,
                            !.last = r.kind,
                            !.refused = (r.kind = "none")]
    /\ UNCHANGED <<rd, mp, it, e57, tw, hd, pw, wd, pr>>

\* extract_f32() or extract_f64() for the next planned float.  refused
\* tells that the latest extraction returned None.
BufExtractFloat ==
    /\ bs.pc = "run"
    /\ Len(bs.outs) < Len(bs.plan)
    /\ bs.plan[Len(bs.outs) + 1].dtype # "Integer"
    /\ LET b == [buffer |-> bs.buffer, offset |-> bs.offset]
           r == IF bs.plan[Len(bs.outs) + 1].dtype = "Single"
                THEN extract_f32(b) ELSE extract_f64(b)
       IN  bs' = [bs EXCEPT !.buffer = r.b.buffer, !.offset = r.b.offset,
                            !.outs = IF r.kind = "some"
                                     THEN Append(bs.outs, r.v) ELSE bs.outs,
                            !.last = r.kind,
                            !.refused = (r.kind = "none")]
    /\ UNCHANGED <<rd, mp, it, e57, tw, hd, pw, wd, pr>>

NextBuf == BufAppend \/ BufExtractInt \/ BufExtractFloat

SpecBuf == InitBuf /\ [][NextBuf]_vars

\* The value a writer packed as `value` for a field reads back as value + min.
Expected(c) == wrapping_add(c.value, c.field.min)

\* C5: every planned (bits, value) with bits in 1..56 or 64 is
\* extracted, in order, as value + min; no extraction panics.
BitsRoundTrip ==
    /\ bs.pc # "panic"
    /\ \A i \in 1..Len(bs.outs) : bs.outs[i] = Expected(bs.plan[i])

\* The same for the widths 1..56 only: the part of C5 the code satisfies.
BitsRoundTripTo56 ==
    (\A i \in 1..Len(bs.plan) : bs.plan[i].field.bits <= 56) => BitsRoundTrip

(***************************************************************************)
(* The files the iterator is run on.  A file is described by              *)
(*   proto    the prototype: a sequence of [name, dtype, field]            *)
(*   records  the record count of the point cloud                          *)
(*   split    the number of bytes of every field's byte stream that the    *)
(*            first data packet holds (0: one packet holds everything)     *)
(*   last     what the last packet of the file is: its type byte, its      *)
(*            flags byte and the number of byte streams it has beyond      *)
(*            the prototype's; and whether the packets' length fields      *)
(*            leave out the padding (exact)                                *)
(*   base     the physical offset of the compressed vector section header  *)
(*   section  whether the section header is valid                          *)
(* and is laid out as the format prescribes: 32 bytes of section header,   *)
(* then the packets [id, flags, length - 1 : u16, n : u16, n slice lengths *)
(* : u16, the slices], each padded to a multiple of 4, in 1024-byte pages  *)
(* whose last 4 bytes are a checksum.                                      *)
(***************************************************************************)
Rec(name, dtype, field) == [name |-> name, dtype |-> dtype, field |-> field]

\* A Double or Single field has no integer range.
NoField == Field(Zero64, Zero64, 0)

Prototypes ==
    << <<Rec("CartesianX", "ScaledInteger", F12)>>,
       <<Rec("CartesianX", "ScaledInteger", F3),
         Rec("CartesianInvalidState", "Integer", F2)>>,
       <<Rec("CartesianX", "Double", NoField), Rec("CartesianY", "Single", NoField)>>,
       <<Rec("RowIndex", "Integer", F12), Rec("ColorRed", "Integer", F56),
         Rec("ColumnIndex", "Integer", F3)>>,
       <<Rec("ColorGreen", "Integer", F63)>>,
       <<Rec("CartesianX", "Double", NoField),
         Rec("ColorRed", "ScaledInteger", F12)>> >>

LastPackets ==
    {[ptype |-> 1, flags |-> 0, extra |-> 0, exact |-> 0],
     [ptype |-> 1, flags |-> 1, extra |-> 0, exact |-> 0],
     [ptype |-> 1, flags |-> 0, extra |-> 1, exact |-> 0],
     [ptype |-> 0, flags |-> 0, extra |-> 0, exact |-> 0],
     [ptype |-> 2, flags |-> 0, extra |-> 0, exact |-> 0],
     [ptype |-> 3, flags |-> 0, extra |-> 0, exact |-> 0],
     [ptype |-> 1, flags |-> 0, extra |-> 0, exact |-> 1]}

GoodPacket == [ptype |-> 1, flags |-> 0, extra |-> 0, exact |-> 0]

\* The value of record r (1, 2, ...) of an integer field: a cartesian
\* invalid state runs through 0, 2, 3, 1; other fields alternate between
\* all bits set and every second bit set.
IntValue(rec, r) ==
    IF rec.name = "CartesianInvalidState" THEN FromNat(<<0, 2, 3, 1>>[((r - 1) % 4) + 1])
    ELSE IF r % 2 = 1 THEN Ones(rec.field.bits) ELSE Alternating(rec.field.bits)

\* The bytes of record r of a Double (8 bytes) or Single (4 bytes) field.
FloatBytes(rec, r) ==
    IF rec.dtype = "Double" THEN <<r, 17, 34, 51, 68, 85, 240, 63>>
    ELSE <<r, 119, 128, 63>>

RECURSIVE FloatStream(_, _, _)
FloatStream(rec, r, n) ==
    IF r > n THEN <<>> ELSE FloatBytes(rec, r) \o FloatStream(rec, r + 1, n)

\* The byte stream of one field over n records.
StreamOf(rec, n) ==
    IF rec.dtype \in {"Double", "Single"} THEN FloatStream(rec, 1, n)
    ELSE PackBytes([r \in 1..n |-> [field |-> rec.field, value |-> IntValue(rec, r)]])

U16Le(n) == <<n % 256, n \div 256>>

RECURSIVE Flatten(_)
Flatten(seqs) == IF seqs = <<>> THEN <<>> ELSE Head(seqs) \o Flatten(Tail(seqs))

Zeros(n) == [i \in 1..n |-> 0]

\* A packet with the given slices, padded to a multiple of 4 bytes.  Its
\* length field counts the padding, or (kind.exact = 1) leaves it out.
PacketBytes(kind, slices) ==
    LET n == Len(slices)
        raw == 6 + 2 * n + Len(Flatten(slices))
        len == ((raw + 3) \div 4) * 4
        packet_length == IF kind.exact = 1 THEN raw ELSE len
    IN  <<kind.ptype, kind.flags>> \o U16Le(packet_length - 1) \o U16Le(n)
            \o Flatten([i \in 1..n |-> U16Le(Len(slices[i]))])
            \o Flatten(slices) \o Zeros(len - raw)

\* The slices of the last packet: one byte stream more when kind.extra = 1.
WithExtra(kind, slices) ==
    IF kind.extra = 1 THEN slices \o << <<165>> >> ELSE slices

PacketsOf(proto, records, split, last) ==
    LET stream(i) == StreamOf(proto[i], records)
        cut(i) == Min(split, Len(stream(i)))
    IN  IF split = 0
        THEN PacketBytes(last, WithExtra(last, [i \in 1..Len(proto) |-> stream(i)]))
        ELSE PacketBytes([GoodPacket EXCEPT !.exact = last.exact],
                         [i \in 1..Len(proto) |-> SubSeq(stream(i), 1, cut(i))])
             \o PacketBytes(last, WithExtra(last,
                         [i \in 1..Len(proto) |->
                              SubSeq(stream(i), cut(i) + 1, Len(stream(i)))]))

SECTION_HEADER_SIZE == 32

\* [id : u8 = 1][7 unused][section_length : u64][data_offset : u64]
\* [index_offset : u64], the offsets physical and below 2^16.
SectionHeader(id, length, data_offset) ==
    <<id>> \o Zeros(7) \o U16Le(length) \o Zeros(6)
        \o U16Le(data_offset) \o Zeros(6) \o Zeros(8)

\* The section headers of the files: a valid one, one with another section
\* id, one with a length that is no multiple of 4.
Sections == {"good", "badid", "badlength"}

\* The payload of the file: nothing of interest up to `base`, the section
\* header, the packets.
LogicalImage(proto, records, split, last, base, section) ==
    LET packets == PacketsOf(proto, records, split, last)
        at == phys_to_logic(base)
    IN  Zeros(at)
            \o SectionHeader(IF section = "badid" THEN 0 ELSE 1,
                             SECTION_HEADER_SIZE + Len(packets)
                                 + (IF section = "badlength" THEN 2 ELSE 0),
                             logic_to_phys(at + SECTION_HEADER_SIZE))
            \o packets

\* The memory map: the payload in whole pages, each followed by 4 checksum
\* bytes (204 here: no reader of this model looks at their value).
MmapOf(image) ==
    LET pages == (Len(image) + LOGICAL_PAGE_SIZE) \div LOGICAL_PAGE_SIZE
    IN  [q \in 1..(pages * PHYSICAL_PAGE_SIZE) |->
            LET p == q - 1
                l == phys_to_logic(p)
            IN  IF p % PHYSICAL_PAGE_SIZE >= LOGICAL_PAGE_SIZE THEN 204
                ELSE IF l < Len(image) THEN image[l + 1] ELSE 0]

(***************************************************************************)
(* Reading the memory map                                                  *)
(***************************************************************************)
\* &mmap[from..to]: the bytes at positions from, ..., to - 1.
MmapSlice(mmap, from, to) == [i \in 1..(to - from) |-> mmap[from + i]]

\* A slice that ends after the end of the map panics.
InMmap(mmap, to) == to <= Len(mmap)

BACKUP_LEN == 16

\* pc_reader/loader.rs index_mmap(mmap, start, end): the logical bytes
\* start..end, through the scratch buffer when they lie on two pages.
IndexCrosses(start, end) ==
    (start \div LOGICAL_PAGE_SIZE) # ((end - 1) \div LOGICAL_PAGE_SIZE)

index_mmap(mmap, start, end) ==
    LET pages_start == start \div LOGICAL_PAGE_SIZE
        pages_end == (end - 1) \div LOGICAL_PAGE_SIZE
    IN  IF pages_start # pages_end
        THEN LET size == end - start
                 remaining == LOGICAL_PAGE_SIZE - (start % LOGICAL_PAGE_SIZE)
                 first == start + (start \div LOGICAL_PAGE_SIZE) * ALIGNMENT_SIZE
                 second == first + remaining + ALIGNMENT_SIZE
             IN  MmapSlice(mmap, first, first + remaining)
                     \o MmapSlice(mmap, second, second + size - remaining)
        ELSE MmapSlice(mmap, start + pages_start * ALIGNMENT_SIZE,
                       end + pages_end * ALIGNMENT_SIZE)

\* Whether index_mmap(mmap, start, end) returns: its slices lie in the map
\* and, on two pages, in the 16 bytes of the scratch buffer.
IndexOk(mmap, start, end) ==
    /\ InMmap(mmap, logic_to_phys(end - 1) + 1)
    /\ IndexCrosses(start, end) => end - start <= BACKUP_LEN

(***************************************************************************)
(* Position (pc_reader/loader.rs): a field's window into the current data  *)
(* packet.  offset is the logical offset of the next packet header, index  *)
(* the field's prototype index, current..end the unread bytes of the       *)
(* field's slice.                                                          *)
(***************************************************************************)
U16At(mmap, at) == index_mmap(mmap, at, at + 2)[1] + 256 * index_mmap(mmap, at, at + 2)[2]

\* The slice lengths of the byte streams 0..=index of the packet at offset.
SizesSum_mut(mmap, offset, index) == U16At(mmap, offset + 6 + index * 2)

RECURSIVE SizesSum(_, _, _)
SizesSum(mmap, offset, index) ==
    IF index < 0 THEN 0
    ELSE U16At(mmap, offset + 6 + index * 2) + SizesSum(mmap, offset, index - 1)

NoHeader == [at |-> 0, ptype |-> 0, restart |-> FALSE, count |-> 0, slice |-> 0,
             length |-> 0]

\* The error load_next returns for a packet whose first byte is not 1.
HeaderError(byte0) == IF byte0 # 1 THEN "Invalid" ELSE ""

\* self.offset += packet_length
NextPacketOffset(offset, packet_length) == offset + packet_length

\* Position::load_next.  kind is "ok", "err" (with err, the Position as it
\* was) or "panic" (a slice past the end of the map).  hdr describes the
\* packet that was pulled; of a refused packet, where it is and its type.
load_next(pos, mmap) ==
    LET header == index_mmap(mmap, pos.offset, pos.offset + 6)
        packet_length == header[3] + 256 * header[4] + 1
        bytestream_count == header[5] + 256 * header[6]
        block_current == 6 + bytestream_count * 2 + SizesSum(mmap, pos.offset, pos.index)
        block_size == U16At(mmap, pos.offset + 6 + pos.index * 2)
        diff == pos.current - pos.end
        end == pos.offset + block_current
        failed(kind, err, hdr) == [kind |-> kind, err |-> err, pos |-> pos,
                                   diff |-> 0, hdr |-> hdr]
    IN  IF ~IndexOk(mmap, pos.offset, pos.offset + 6) THEN failed("panic", "", NoHeader)
        ELSE IF HeaderError(header[1]) # ""
        THEN failed("err", HeaderError(header[1]),
                    [NoHeader EXCEPT !.at = pos.offset, !.ptype = header[1]])
        ELSE IF ~IndexOk(mmap, pos.offset + 6, pos.offset + 6 + (pos.index + 1) * 2)
                \/ diff < 0
             THEN failed("panic", "", NoHeader)
        ELSE [kind |-> "ok", err |-> "",
              pos |-> [offset |-> NextPacketOffset(pos.offset, packet_length),
                       index |-> pos.index,
                       current |-> end - block_size + diff,
                       end |-> end],
              diff |-> diff,
              hdr |-> [at |-> pos.offset, ptype |-> header[1],
                       restart |-> header[2] % 2 # 0, count |-> bytestream_count,
                       slice |-> end - block_size, length |-> packet_length]]

\* Position::new
NewPosition(prototype_offset, prototype_index, mmap) ==
    load_next([offset |-> prototype_offset, index |-> prototype_index,
               current |-> 0, end |-> 0], mmap)

(***************************************************************************)
(* The loaders.  All three read a window of end_offset bytes at the        *)
(* cursor, advance the cursor by used_offset bytes and, when that reaches  *)
(* the end of the slice before the last record, pull the next packet and   *)
(* re-read the last diff bytes of the window from the new slice.           *)
(***************************************************************************)
MustPull_mut(pos, at_end) == pos.current >= pos.end

\* if self.position.current >= self.position.end && !at_end
MustPull(pos, at_end) == pos.current >= pos.end /\ ~at_end

\* tmp[(end_offset - diff)..end_offset].copy_from_slice(carried)
Refill(tmp, end_offset, diff, carried) ==
    [i \in 1..Len(tmp) |->
        IF end_offset - diff < i /\ i <= end_offset
        THEN carried[i - (end_offset - diff)] ELSE tmp[i]]

LoadWindow(pos, mmap, at_end, end_offset, used_offset, tmp_len) ==
    LET tmp == index_mmap(mmap, pos.current, pos.current + end_offset)
                   \o Zeros(tmp_len - end_offset)
        moved == [pos EXCEPT !.current = pos.current + used_offset]
        out(kind, err, p, t, pulled, hdr) ==
            [kind |-> kind, err |-> err, pos |-> p, tmp |-> t, pulled |-> pulled,
             hdr |-> hdr]
        pulled(next) ==
            IF next.kind # "ok"
            THEN out(next.kind, next.err, moved, tmp, TRUE, next.hdr)
            ELSE IF next.diff = 0
            THEN out("ok", "", next.pos, tmp, TRUE, next.hdr)
            ELSE IF next.diff > end_offset
                    \/ ~IndexOk(mmap, next.pos.current - next.diff, next.pos.current)
            THEN out("panic", "", next.pos, tmp, TRUE, next.hdr)
            ELSE out("ok", "", next.pos,
                     Refill(tmp, end_offset, next.diff,
                            index_mmap(mmap, next.pos.current - next.diff,
                                       next.pos.current)),
                     TRUE, next.hdr)
    IN  IF end_offset > tmp_len \/ ~IndexOk(mmap, pos.current, pos.current + end_offset)
        THEN out("panic", "", pos, Zeros(tmp_len), FALSE, NoHeader)
        ELSE IF ~MustPull(moved, at_end)
        THEN out("ok", "", moved, tmp, FALSE, NoHeader)
        ELSE Once(load_next(moved, mmap), pulled)

\* IntLoader::new: the width and the mask are computed before the first
\* packet is pulled.
NewIntLoader(prototype_offset, prototype_index, min, max, mmap, build) ==
    LET range == RangeOf(min, max, build)
        bits == BitsOf(range.v)
        mask == MaskOf(bits, build)
        made(position) ==
            IF position.kind # "ok"
            THEN [kind |-> position.kind, err |-> position.err, hdr |-> position.hdr]
            ELSE [kind |-> "ok", err |-> "", hdr |-> position.hdr,
                  loader |-> [type |-> "Int", position |-> position.pos, min |-> min,
                              offset |-> 0, bits |-> bits, mask |-> mask.v]]
    IN  IF ~range.ok \/ ~mask.ok THEN [kind |-> "panic", err |-> "", hdr |-> NoHeader]
        ELSE Once(NewPosition(prototype_offset, prototype_index, mmap), made)

\* F64Loader::new and F32Loader::new
NewFloatLoader(type, prototype_offset, prototype_index, mmap) ==
    LET made(position) ==
            IF position.kind # "ok"
            THEN [kind |-> position.kind, err |-> position.err, hdr |-> position.hdr]
            ELSE [kind |-> "ok", err |-> "", hdr |-> position.hdr,
                  loader |-> [type |-> type, position |-> position.pos]]
    IN  Once(NewPosition(prototype_offset, prototype_index, mmap), made)

\* IntLoader::load
IntLoad(l, mmap, at_end, build) ==
    LET loaded(w) ==
            LET int == IntValueOf(UintValueOf(w.tmp, l.offset, l.mask), l.min, build)
            IN  IF w.kind # "ok"
                THEN [kind |-> w.kind, err |-> w.err, value |-> Zero64,
                      pulled |-> w.pulled, hdr |-> w.hdr,
                      loader |-> [l EXCEPT !.position = w.pos]]
                ELSE IF ~int.ok
                THEN [kind |-> "panic", err |-> "", value |-> Zero64,
                      pulled |-> w.pulled, hdr |-> w.hdr,
                      loader |-> [l EXCEPT !.position = w.pos]]
                ELSE [kind |-> "ok", err |-> "", value |-> int.v, pulled |-> w.pulled,
                      hdr |-> w.hdr,
                      loader |-> [l EXCEPT !.position = w.pos,
                                           !.offset = (l.offset + l.bits) % 8]]
    IN  Once(LoadWindow(l.position, mmap, at_end, EndOffset(l.offset, l.bits),
                        UsedOffset(l.offset, l.bits), TMP_LEN), loaded)

\* F64Loader::load (8 bytes) and F32Loader::load (4 bytes): the value is
\* kept as its little-endian bytes.
FloatLoad(l, mmap, at_end) ==
    LET size == IF l.type = "F64" THEN 8 ELSE 4
        loaded(w) == [kind |-> w.kind, err |-> w.err, value |-> w.tmp,
                      pulled |-> w.pulled, hdr |-> w.hdr,
                      loader |-> [l EXCEPT !.position = w.pos]]
    IN  Once(LoadWindow(l.position, mmap, at_end, size, size, size), loaded)

\* PropertyLoader::load of whichever loader a reader owns.
Load(l, mmap, at_end, build) ==
    IF l.type = "Int" THEN IntLoad(l, mmap, at_end, build)
    ELSE FloatLoad(l, mmap, at_end)

(***************************************************************************)
(* Converters and savers.  Floating point results are kept symbolic: the   *)
(* converter's name and the raw value it was applied to.                   *)
(***************************************************************************)
\* Point::default()
DefaultPoint ==
    [x |-> <<"default">>, y |-> <<"default">>, z |-> <<"default">>,
     red |-> <<"default">>, green |-> <<"default">>, blue |-> <<"default">>,
     row |-> <<"default">>, column |-> <<"default">>,
     cartesian_invalid |-> 0]

\* PropertyConverter::convert
convert(converter, v) ==
    IF converter = "U8Converter" THEN AsU8(v) ELSE <<converter, v>>

\* PropertySaver::save
save(saver, point, value) == [point EXCEPT ![saver] = value]

Cartesian == {"CartesianX", "CartesianY", "CartesianZ"}

Colors == {"ColorRed", "ColorGreen", "ColorBlue"}

SaverOf(name) ==
    CASE name = "CartesianX" -> "x" [] name = "CartesianY" -> "y"
      [] name = "CartesianZ" -> "z" [] name = "ColorRed" -> "red"
      [] name = "ColorGreen" -> "green" [] name = "ColorBlue" -> "blue"
      [] OTHER -> "cartesian_invalid"

\* The match of PointCloudReader::new on (prototype.name, prototype.data_type).
Binding(name, dtype) ==
    LET bind(l, c) == [loader |-> l, converter |-> c, saver |-> SaverOf(name)]
    IN  CASE name \in Cartesian /\ dtype = "ScaledInteger" -> bind("Int", "ScaledIntConverter")
          [] name \in Cartesian /\ dtype = "Double" -> bind("F64", "IdentityConverter")
          [] name \in Cartesian /\ dtype = "Single" -> bind("F32", "F32ToF64Converter")
          [] name \in Colors /\ dtype = "Integer" -> bind("Int", "UnitIntConverter")
          [] name \in {"Intensity", "RowIndex", "ColumnIndex"} -> bind("skip", "")
          [] name = "CartesianInvalidState" /\ dtype = "Integer" -> bind("Int", "U8Converter")
          [] OTHER -> bind("unimplemented", "")

(***************************************************************************)
(* PointCloudReader (pc_reader/mod.rs)                                     *)
(***************************************************************************)
\* u64::from_le_bytes(..) as usize of a value below 2^24, which every
\* offset of the modelled files is.
U64Small(bytes) == bytes[1] + 256 * bytes[2] + 65536 * bytes[3]

\* The loop of PointCloudReader::new over pc.prototype, from field i on.
\* hdr is the packet header the latest Position::new pulled; a reader's
\* `first` is where its loader read its first packet header.
RECURSIVE MakeReaders(_, _, _, _, _, _, _)
MakeReaders(proto, i, acc, hdr, logical_offset, mmap, build) ==
    IF i > Len(proto) THEN [kind |-> "ok", err |-> "", readers |-> acc, hdr |-> hdr]
    ELSE LET b == Binding(proto[i].name, proto[i].dtype)
             push(made) ==
                 IF made.kind # "ok"
                 THEN [kind |-> made.kind, err |-> made.err, readers |-> <<>>,
                       hdr |-> made.hdr]
                 ELSE MakeReaders(proto, i + 1,
                                  Append(acc, [loader |-> made.loader,
                                               converter |-> b.converter,
                                               saver |-> b.saver,
                                               first |-> made.hdr.at]),
                                  made.hdr, logical_offset, mmap, build)
         IN  IF b.loader = "skip"
             THEN MakeReaders(proto, i + 1, acc, hdr, logical_offset, mmap, build)
             ELSE IF b.loader = "unimplemented"
             THEN [kind |-> "panic", err |-> "", readers |-> <<>>, hdr |-> hdr]
             ELSE IF b.loader = "Int"
             THEN Once(NewIntLoader(logical_offset, i - 1, proto[i].field.min,
                                    proto[i].field.max, mmap, build), push)
             ELSE Once(NewFloatLoader(b.loader, logical_offset, i - 1, mmap), push)

SectionLengthBad_mut(section_length) == section_length % 2 # 0

\* if section_length % 4 != 0
SectionLengthBad(section_length) == section_length % 4 # 0

\* PointCloudReader::new
PointCloudReaderNew(proto, file_offset, mmap, build) ==
    LET parse(from) ==
            LET buffer == [i \in 1..SECTION_HEADER_SIZE |-> mmap[from[i] + 1]]
                section_id == buffer[1]
                section_length == U64Small(SubSeq(buffer, 9, 16))
                data_offset == U64Small(SubSeq(buffer, 17, 24))
                logical_offset == phys_to_logic(data_offset)
            IN  IF ~InMmap(mmap, from[SECTION_HEADER_SIZE] + 1)
                THEN [kind |-> "panic", err |-> "", readers |-> <<>>, hdr |-> NoHeader]
                ELSE IF section_id # 1
                THEN [kind |-> "err", err |-> "Invalid", readers |-> <<>>,
                      hdr |-> NoHeader]
                ELSE IF SectionLengthBad(section_length)
                THEN [kind |-> "err", err |-> "Invalid", readers |-> <<>>,
                      hdr |-> NoHeader]
                ELSE MakeReaders(proto, 1, <<>>, NoHeader, logical_offset, mmap, build)
    IN  Once(read(SECTION_HEADER_SIZE, file_offset), parse)

\* The inner loop of next: reader.read(mmap, &mut p, at_end) for the readers
\* i, i + 1, ... in order.  Every load is recorded: the record it is for,
\* the reader, the loader before and after, what it returned and the packet
\* it pulled, if any.
RECURSIVE ReadAll(_, _, _, _, _, _, _, _)
ReadAll(readers, i, mmap, p, at_end, build, rec, log) ==
    IF i > Len(readers)
    THEN [kind |-> "ok", err |-> "", readers |-> readers, p |-> p, log |-> log]
    ELSE LET loaded(r) ==
                 LET after == [readers EXCEPT ![i].loader = r.loader]
                     event == [rec |-> rec, reader |-> i, at_end |-> at_end,
                               kind |-> r.kind, err |-> r.err, value |-> r.value,
                               pulled |-> r.pulled, hdr |-> r.hdr,
                               before |-> readers[i].loader, after |-> r.loader]
                 IN  IF r.kind # "ok"
                     THEN [kind |-> r.kind, err |-> r.err, readers |-> after, p |-> p,
                           log |-> Append(log, event)]
                     ELSE ReadAll(after, i + 1, mmap,
                                  save(readers[i].saver, p,
                                       convert(readers[i].converter, r.value)),
                                  at_end, build, rec, Append(log, event))
         IN  Once(Load(readers[i].loader, mmap, at_end, build), loaded)

\* if p.cartesian_invalid != 0 { continue; }
SkipsPoint(p) == p.cartesian_invalid # 0

\* The item a call of next ends with.
NoneItem == [kind |-> "none", err |-> "", point |-> DefaultPoint]

\* A loop condition that lets one more pass run.
LoopRuns_mut(rd_count, records) == rd_count <= records

\* while self.read < self.pc.records
LoopRuns(rd_count, records) == rd_count < records

\* self.pc.records - 1 on u64: the subtraction overflows for records = 0.
RecordsLess1(records, build) ==
    IF records > 0 THEN [ok |-> TRUE, v |-> records - 1]
    ELSE [ok |-> build = "release", v |-> -1]

\* self.read >= self.pc.records - 1, where -1 stands for the wrapped
\* u64::MAX, which no count reaches.
AtEnd(rd_count, last) == last >= 0 /\ rd_count >= last

\* PointCloudReader::next: the while loop from the record `rd_count` on.
RECURSIVE NextLoop(_, _, _, _, _, _)
NextLoop(rd_count, readers, log, records, mmap, build) ==
    IF ~LoopRuns(rd_count, records)
    THEN [item |-> NoneItem, read |-> rd_count, readers |-> readers, log |-> log]
    ELSE IF ~RecordsLess1(records, build).ok
    THEN [item |-> [kind |-> "panic", err |-> "", point |-> DefaultPoint],
          read |-> rd_count, readers |-> readers, log |-> log]
    ELSE LET at_end == AtEnd(rd_count, RecordsLess1(records, build).v)
             done(r) ==
                 IF r.kind # "ok"
                 THEN [item |-> [kind |-> r.kind, err |-> r.err, point |-> DefaultPoint],
                       read |-> rd_count, readers |-> r.readers, log |-> r.log]
                 ELSE IF SkipsPoint(r.p)
                 THEN NextLoop(rd_count + 1, r.readers, r.log, records, mmap, build)
                 ELSE [item |-> [kind |-> "ok", err |-> "", point |-> r.p],
                       read |-> rd_count + 1, readers |-> r.readers, log |-> r.log]
         IN  Once(ReadAll(readers, 1, mmap, DefaultPoint, at_end, build, rd_count, log),
                  done)

(***************************************************************************)
(* Specification SpecIter: PointCloudReader::new on a file, then calls of  *)
(* next.                                                                   *)
(*   it.proto, it.records, it.file_offset   the PointCloud descriptor      *)
(*   it.mmap     the memory map                                            *)
(*   it.read, it.readers   the PointCloudReader                            *)
(*   it.err, it.hdr   the error of a failed construction; the packet       *)
(*               header the construction pulled last                       *)
(*   it.items    what the calls of next returned, in order                 *)
(*   it.log      every load the calls made                                 *)
(*   it.split, it.last   how the file was laid out                         *)
(***************************************************************************)
MaxRecords == 3

MaxSplit == 2

MaxExtraCalls == 2

FileOffsets == {48, 960}

InitIter ==
    /\ \E pi \in 1..Len(Prototypes), n \in 0..MaxRecords, split \in 0..MaxSplit,
          last \in LastPackets, base \in FileOffsets, build \in Builds,
          section \in Sections :
          /\ section # "good" => (split = 0 /\ last = GoodPacket)
          /\ it = [pc |-> "new", proto |-> Prototypes[pi], records |-> n,
                file_offset |-> base, section |-> section,
                mmap |-> Once(LogicalImage(Prototypes[pi], n, split, last, base,
                                           section), MmapOf),
                build |-> build, read |-> 0, readers |-> <<>>, items |-> <<>>,
                log |-> <<>>, err |-> "", hdr |-> NoHeader, split |-> split,
                last |-> last]
    /\ rd = Idle
    /\ mp = Idle
    /\ bs = Idle
    /\ e57 = Idle
    /\ tw = Idle
    /\ hd = Idle
    /\ pw = Idle
    /\ wd = Idle
    /\ pr = Idle

\* PointCloudReader::new(pc, mmap)
IterNew ==
    /\ it.pc = "new"
    /\ \E r \in {PointCloudReaderNew(it.proto, it.file_offset, it.mmap, it.build)} :
           it' = [it EXCEPT !.pc = CASE r.kind = "ok" -> "iter"
                                     [] r.kind = "err" -> "failed"
                                     [] OTHER -> "panic",
                            !.err = r.err,
                            !.hdr = r.hdr,
                            !.readers = r.readers]
    /\ UNCHANGED <<rd, mp, bs, e57, tw, hd, pw, wd, pr>>

\* One call of next().
IterNext ==
    /\ it.pc = "iter"
    /\ Len(it.items) < it.records + MaxExtraCalls
    /\ \E r \in {NextLoop(it.read, it.readers, it.log, it.records, it.mmap, it.build)} :
           it' = [it EXCEPT !.pc = IF r.item.kind = "panic" THEN "panic" ELSE "iter",
                            !.read = r.read,
                            !.readers = r.readers,
                            !.log = r.log,
                            !.items = Append(it.items, r.item)]
    /\ UNCHANGED <<rd, mp, bs, e57, tw, hd, pw, wd, pr>>

NextIter == IterNew \/ IterNext

SpecIter == InitIter /\ [][NextIter]_vars

(***************************************************************************)
(* Properties of the iterator, stated over the calls and loads recorded    *)
(* in it.items and it.log.                                                 *)
(***************************************************************************)
Items == {it.items[i] : i \in 1..Len(it.items)}

Events == {it.log[i] : i \in 1..Len(it.log)}

\* The prototype field a recorded load is for.
FieldOf(e) == it.proto[e.before.position.index + 1]

IntEvent(e) == e.before.type = "Int"

\* The value the file holds for the record a recorded load is for.
Stored(e) == wrapping_add(IntValue(FieldOf(e), e.rec + 1), FieldOf(e).field.min)

\* The number of bytes of a field's byte stream that the first packet holds.
CutOf(rec) == Min(it.split, Len(StreamOf(rec, it.records)))

\* The bits of the value lie partly in the first packet's slice and partly
\* in the second packet's.
Straddles(e) ==
    /\ it.split > 0
    /\ e.rec * FieldOf(e).field.bits < 8 * CutOf(FieldOf(e))
    /\ 8 * CutOf(FieldOf(e)) < (e.rec + 1) * FieldOf(e).field.bits

\* The calls so far ran to the end without an error.
IteratedToEnd ==
    /\ it.pc = "iter"
    /\ it.items # <<>>
    /\ it.items[Len(it.items)].kind = "none"
    /\ \A item \in Items : item.kind \in {"ok", "none"}

Points == {i \in 1..Len(it.items) : it.items[i].kind = "ok"}

\* C1: calling next until it returns None, with no error on the way, yields
\* exactly pc.records points, whatever the records hold (their
\* cartesianInvalidState included).
IterateYieldsEveryRecord ==
    (IteratedToEnd /\ it.last = GoodPacket) => Cardinality(Points) = it.records

\* C2: once next has returned Some(Err(_)), every later call returns None.
ErrorItemIsTerminal ==
    \A i, j \in 1..Len(it.items) :
        (i < j /\ it.items[i].kind = "err") => it.items[j].kind = "none"

\* C6: every value an integer loader returns for a field declared with
\* [min, max] lies in [min, max] (a load of more than max - min fails
\* instead).
LoadedValueInRange ==
    \A e \in Events :
        (e.kind = "ok" /\ IntEvent(e) /\ it.last = GoodPacket)
            => /\ SLe(FieldOf(e).field.min, e.value)
               /\ SLe(e.value, FieldOf(e).field.max)

\* C7: a value whose bits lie partly at the end of the field's slice in one
\* packet and partly at the start of its slice in the next is loaded as the
\* value stored in the concatenation of the slices, and the loader goes on
\* at the next unread bit of the new slice.
CursorContinuousAcrossPackets ==
    \A e \in Events :
        (e.kind = "ok" /\ IntEvent(e) /\ it.last = GoodPacket /\ ~e.at_end
            /\ Straddles(e))
            => /\ e.pulled
               /\ e.value = Stored(e)
               /\ e.after.offset = ((e.rec + 1) * FieldOf(e).field.bits) % 8
               /\ e.after.position.current =
                      e.hdr.slice + (((e.rec + 1) * FieldOf(e).field.bits) \div 8)
                          - CutOf(FieldOf(e))

\* C8: a loader that pulls a data packet with the compressor-restart flag
\* set has its bit offset reset to 0 and its byte cursor at the first byte
\* of the field's slice in that packet.
RestartFlagResetsCursor ==
    \A e \in Events :
        (e.pulled /\ e.kind = "ok" /\ e.hdr.restart)
            => /\ IntEvent(e) => e.after.offset = 0
               /\ e.after.position.current = e.hdr.slice

\* What C9 asks of a pull of the packet hdr that ended as kind, err.
PacketTypeOutcome(kind, err, hdr) ==
    /\ (kind = "err" /\ hdr.ptype \in {0, 2}) => err = "Unimplemented"
    /\ (kind = "err" /\ hdr.ptype \notin {0, 1, 2}) => err = "Invalid"
    /\ kind = "ok" => hdr.ptype = 1

\* C9: pulling a packet whose first byte is 0 or 2 fails with
\* Error::Unimplemented, any other first byte but 1 fails with
\* Error::Invalid, and only a first byte of 1 is decoded.
PacketTypeIsChecked ==
    /\ (it.pc = "failed" /\ it.hdr # NoHeader) => PacketTypeOutcome("err", it.err, it.hdr)
    /\ (it.pc = "iter" /\ it.hdr # NoHeader) => PacketTypeOutcome("ok", "", it.hdr)
    /\ \A e \in Events : e.pulled => PacketTypeOutcome(e.kind, e.err, e.hdr)

\* C10: a data packet whose bytestream_count is not the number of prototype
\* fields is refused (Error::Invalid): no pull of such a packet succeeds and
\* no point is decoded from it.
StreamCountIsChecked ==
    /\ (it.pc = "iter" /\ it.hdr # NoHeader /\ Points # {})
           => it.hdr.count = Len(it.proto)
    /\ \A e \in Events : (e.pulled /\ e.kind = "ok") => e.hdr.count = Len(it.proto)

\* What the loaders do get right: in a well-formed file, a value that lies
\* in one slice, or straddles two on a byte boundary, is loaded as stored.
LoadsStoredValue ==
    \A e \in Events :
        (e.kind = "ok" /\ IntEvent(e) /\ it.last.ptype = 1 /\ it.last.exact = 0
            /\ (Straddles(e) => (~e.at_end /\ ((e.rec + 1) * FieldOf(e).field.bits) % 8 = 0)))
            => e.value = Stored(e)

\* The next multiple of 4 from n on.
AlignUp(n) == ((n + ALIGNMENT_SIZE - 1) \div ALIGNMENT_SIZE) * ALIGNMENT_SIZE

\* C11: after a data packet at logical offset S with length packet_length
\* is consumed, the next packet header is read at S + packet_length rounded
\* up to the next multiple of 4 (also when packet_length is no multiple of
\* 4): that is where every loader's Position.offset stands after the pull.
NextHeaderIsAligned ==
    /\ (it.pc = "iter" /\ it.items = <<>> /\ it.hdr # NoHeader)
           => \A i \in 1..Len(it.readers) :
                  it.readers[i].loader.position.offset
                      = AlignUp(it.hdr.at + it.hdr.length)
    /\ \A e \in Events :
           (e.pulled /\ e.kind = "ok")
               => e.after.position.offset = AlignUp(e.hdr.at + e.hdr.length)

\* The section header as the file holds it at file_offset.
StoredSection ==
    LET at == phys_to_logic(it.file_offset)
        byte(i) == it.mmap[logic_to_phys(at + i) + 1]
    IN  [id |-> byte(0),
         length |-> byte(8) + 256 * byte(9),
         data_offset |-> byte(16) + 256 * byte(17)]

\* C12: PointCloudReader::new fails with Error::Invalid, having made no
\* field loader and read no packet header, when byte 0 of the section
\* header is not 1 or when its section length is no multiple of 4;
\* otherwise every field loader reads its first packet header at the
\* header's data_offset.
SectionHeaderIsValidated ==
    it.pc # "new"
        => IF StoredSection.id # 1 \/ StoredSection.length % 4 # 0
           THEN /\ it.pc = "failed"
                /\ it.err = "Invalid"
                /\ it.readers = <<>>
                /\ it.hdr = NoHeader
                /\ it.items = <<>>
           ELSE /\ it.hdr # NoHeader
                       => logic_to_phys(it.hdr.at) = StoredSection.data_offset
                /\ \A i \in 1..Len(it.readers) :
                       logic_to_phys(it.readers[i].first) = StoredSection.data_offset

\* A file whose section header has the id 1 and a length that is no
\* multiple of 4 was refused.
SectionLengthRefused ==
    /\ it.pc = "failed"
    /\ StoredSection.id = 1
    /\ (StoredSection.length % 4) # 0

(***************************************************************************)
(* CRC32C (crc32.rs).  A u32 is a sequence of 32 bits, least significant   *)
(* bit first.                                                              *)
(***************************************************************************)
U32_BITS == 32

\* The bits of f, each worked out now.
Word(f) == SubSeq(f, 1, U32_BITS)

\* n as u32, of a u8 n
U32FromU8(n) ==
    Word([i \in 1..U32_BITS |-> IF i <= 8 THEN (n \div (2 ^ (i - 1))) % 2 ELSE 0])

\* u32::from_le_bytes(b)
U32FromLe(b) ==
    Word([i \in 1..U32_BITS |->
             (b[((i - 1) \div 8) + 1] \div (2 ^ ((i - 1) % 8))) % 2])

\* a ^ b
Xor32(a, b) == Word([i \in 1..U32_BITS |-> (a[i] + b[i]) % 2])

\* a >> n
Shr32(a, n) ==
    Word([i \in 1..U32_BITS |-> IF i + n <= U32_BITS THEN a[i + n] ELSE 0])

\* !a
Not32(a) == Word([i \in 1..U32_BITS |-> 1 - a[i]])

\* a as u8
LowByte(a) ==
    a[1] + 2 * a[2] + 4 * a[3] + 8 * a[4] + 16 * a[5] + 32 * a[6] + 64 * a[7]
        + 128 * a[8]

\* The Castagnoli polynomial 0x1EDC6F41 with its bits reversed, as the
\* right-shifting update takes it: 0x82F63B78.
CASTAGNOLI == U32FromLe(<<120, 59, 246, 130>>)

\* One entry of the 256-entry table: 8 times,
\* shift right and add the polynomial when a 1 was shifted out.
RECURSIVE TableEntry(_, _)
TableEntry(c, k) ==
    IF k = 0 THEN c
    ELSE LET shift(x) ==
                 TableEntry(IF x[1] = 1 THEN Xor32(Shr32(x, 1), CASTAGNOLI)
                            ELSE Shr32(x, 1), k - 1)
         IN  Once(c, shift)

\* Crc32.table
Crc32Table == [i \in 0..255 |-> TableEntry(U32FromU8(i), 8)]

\* The closure of the fold of Crc32::calculate:
\*   index = (sum ^ next as u32) as u8;  table[index] ^ (sum >> 8)
Crc32Step(sum, next) ==
    Xor32(Crc32Table[LowByte(Xor32(sum, U32FromU8(next)))], Shr32(sum, 8))

\* data[lo..=hi].iter().fold(sum, ..)
RECURSIVE Crc32Fold(_, _, _, _)
Crc32Fold(data, lo, hi, sum) ==
    IF lo > hi THEN sum
    ELSE IF lo = hi THEN Crc32Step(sum, data[lo])
    ELSE LET mid == (lo + hi) \div 2
             rest(s) == Crc32Fold(data, mid + 1, hi, s)
         IN  Once(Crc32Fold(data, lo, mid, sum), rest)

\* Crc32::calculate(data)
calculate(data) ==
    LET fold(d) == Not32(Crc32Fold(d, 1, Len(d), Not32(U32FromU8(0))))
    IN  Once(data, fold)

\* crc.to_be_bytes()
to_be_bytes(a) ==
    <<LowByte(Shr32(a, 24)), LowByte(Shr32(a, 16)), LowByte(Shr32(a, 8)), LowByte(a)>>

(***************************************************************************)
(* PagedReader (paged_reader.rs) over a file: `pos` is the position of the *)
(* reader it wraps, `offset` the offset in the page.                       *)
(***************************************************************************)
CHECKSUM_SIZE == 4

seek_physical_mut(r, offset) == [pos |-> offset, offset |-> r.offset]

\* PagedReader::seek_physical
seek_physical(r, offset) ==
    [pos |-> offset, offset |-> offset % PHYSICAL_PAGE_SIZE]

\* Seek::rewind of the PagedReader, as E57::validate_crc calls it: back
\* to the start of the file and of its first page.
rewind(r) == seek_physical(r, 0)

\* <PagedReader as Read>::read with a buffer of len bytes: the bytes read
\* (n of them) and the reader afterwards.
PagedRead(r, file, len) ==
    IF r.offset > PHYSICAL_PAGE_SIZE - CHECKSUM_SIZE
    THEN [kind |-> "panic", n |-> 0, bytes |-> <<>>, reader |-> r]
    ELSE LET from == IF r.offset = PHYSICAL_PAGE_SIZE - CHECKSUM_SIZE
                     THEN [pos |-> r.pos + CHECKSUM_SIZE, offset |-> 0]
                     ELSE r
             readable == Min(len, PHYSICAL_PAGE_SIZE - CHECKSUM_SIZE - from.offset)
             left == IF from.pos < Len(file) THEN Len(file) - from.pos ELSE 0
             n == Min(readable, left)
         IN  [kind |-> "ok", n |-> n,
              bytes |-> SubSeq(file, from.pos + 1, from.pos + n),
              reader |-> [pos |-> from.pos + n, offset |-> from.offset + n]]

\* Read::read_exact on the PagedReader: read until len bytes are there;
\* a read of no bytes is the end of the file.
RECURSIVE read_exact(_, _, _)
read_exact(r, file, len) ==
    IF len = 0 THEN [kind |-> "ok", bytes |-> <<>>, reader |-> r]
    ELSE LET got(x) ==
                 IF x.kind # "ok"
                 THEN [kind |-> "panic", bytes |-> <<>>, reader |-> x.reader]
                 ELSE IF x.n = 0
                 THEN [kind |-> "err", bytes |-> <<>>, reader |-> x.reader]
                 ELSE LET more(y) == [y EXCEPT !.bytes = x.bytes \o y.bytes]
                      IN  Once(read_exact(x.reader, file, len - x.n), more)
         IN  Once(PagedRead(r, file, len), got)

\* E57::validate_crc: rewind, then read into a buffer of one page while
\* the read returns 0.  A read that returned 0 returns 0 again: the loop
\* does not end.
validate_crc(r, file) ==
    LET done(x) ==
            [result |-> CASE x.kind # "ok" -> [kind |-> "panic", page |-> 0]
                          [] x.n = 0 -> [kind |-> "hang", page |-> 0]
                          [] OTHER -> [kind |-> "Ok", page |-> 0],
             reader |-> x.reader]
    IN  Once(PagedRead(rewind(r), file, PHYSICAL_PAGE_SIZE), done)

\* CompressedVectorSectionHeader::read(reader)
CompressedVectorSectionHeaderRead(r, file) ==
    LET parse(x) ==
            IF x.kind = "panic"
            THEN [kind |-> "panic", err |-> "", data_offset |-> 0, reader |-> x.reader]
            ELSE IF x.kind = "err"
            THEN [kind |-> "err", err |-> "Read", data_offset |-> 0,
                  reader |-> x.reader]
            ELSE IF x.bytes[1] # 1 \/ SectionLengthBad(U64Small(SubSeq(x.bytes, 9, 16)))
            THEN [kind |-> "err", err |-> "Invalid", data_offset |-> 0,
                  reader |-> x.reader]
            ELSE [kind |-> "ok", err |-> "",
                  data_offset |-> U64Small(SubSeq(x.bytes, 17, 24)),
                  reader |-> x.reader]
    IN  Once(read_exact(r, file, SECTION_HEADER_SIZE), parse)

\* pc_reader.rs PointCloudReader::new(pc, reader): seek to the section
\* header, read it through the reader, seek to its data offset; the field
\* loaders then work on the memory map of the same file.
PointCloudReaderOpen(r, proto, file_offset, file, build) ==
    LET after(h) ==
            IF h.kind # "ok"
            THEN [kind |-> h.kind, err |-> h.err, readers |-> <<>>, reader |-> h.reader]
            ELSE LET made(m) ==
                         [kind |-> m.kind, err |-> m.err, readers |-> m.readers,
                          reader |-> seek_physical(h.reader, h.data_offset)]
                 IN  Once(MakeReaders(proto, 1, <<>>, NoHeader,
                                      phys_to_logic(h.data_offset), file, build),
                          made)
    IN  Once(CompressedVectorSectionHeaderRead(seek_physical(r, file_offset), file),
             after)

\* The items of the iterator up to its first item that is no point.
RECURSIVE Collect(_, _, _, _, _, _)
Collect(rd_count, readers, records, mmap, build, items) ==
    LET item(x) ==
            IF x.item.kind # "ok"
            THEN Append(items, x.item)
            ELSE Collect(x.read, x.readers, records, mmap, build,
                         Append(items, x.item))
    IN  Once(NextLoop(rd_count, readers, <<>>, records, mmap, build), item)

\* Opening the point cloud and iterating over it: what the construction
\* returned, the items, the reader afterwards.
Iterate(r, proto, records, file_offset, file, build) ==
    LET opened(o) ==
            [kind |-> o.kind, err |-> o.err, reader |-> o.reader,
             items |-> IF o.kind = "ok"
                       THEN Collect(0, o.readers, records, file, build, <<>>)
                       ELSE <<>>]
    IN  Once(PointCloudReaderOpen(r, proto, file_offset, file, build), opened)

(***************************************************************************)
(* Specification SpecE57: an opened E57 file, on which validate_crc is     *)
(* called and the point cloud is iterated, in either order.                *)
(*   e57.file      the bytes of the file                                   *)
(*   e57.changed   0, or the position (from 1) of the one payload byte     *)
(*                 that was changed after the checksums were written       *)
(*   e57.proto, e57.records, e57.file_offset   the PointCloud descriptor   *)
(*   e57.reader    the PagedReader of the E57 object                       *)
(*   e57.opened    the PagedReader as E57::new left it                     *)
(*   e57.validated, e57.points   what validate_crc returned; what the      *)
(*                 iteration yielded                                       *)
(*   e57.order     the calls made so far                                   *)
(***************************************************************************)
\* The file of a payload: pages of 1020 payload bytes, each followed by
\* the big-endian CRC32C of the 1020 bytes (paged_writer.rs).
CrcFile(image) ==
    LET pages == (Len(image) + LOGICAL_PAGE_SIZE) \div LOGICAL_PAGE_SIZE
        payload(p) ==
            SubSeq([i \in 1..LOGICAL_PAGE_SIZE |->
                       LET l == (p - 1) * LOGICAL_PAGE_SIZE + i
                       IN  IF l <= Len(image) THEN image[l] ELSE 0],
                   1, LOGICAL_PAGE_SIZE)
        page(p) ==
            LET sealed(bytes) == bytes \o to_be_bytes(calculate(bytes))
            IN  Once(payload(p), sealed)
    IN  Flatten([p \in 1..pages |-> page(p)])

E57Prototypes == {1, 3}

E57Records == {1, 2}

\* The files: a point cloud of one or two records, its section header at
\* one of the FileOffsets.
E57Files ==
    {[proto |-> Prototypes[pi], records |-> n, file_offset |-> base,
      file |-> CrcFile(LogicalImage(Prototypes[pi], n, 0, GoodPacket, base, "good"))] :
        pi \in E57Prototypes, n \in E57Records, base \in FileOffsets}

\* The payload bytes one of which is changed: the first byte of the file,
\* the first byte of the section header, the last payload byte of a page.
ChangedBytes(f) ==
    {q \in {1, f.file_offset + 1, LOGICAL_PAGE_SIZE,
            PHYSICAL_PAGE_SIZE + LOGICAL_PAGE_SIZE} : q <= Len(f.file)}

\* Where the XML section lies that E57::new reads.
XmlSections ==
    {[offset |-> 48, length |-> 20], [offset |-> 1000, length |-> 20],
     [offset |-> 1000, length |-> 40]}

InitE57 ==
    /\ \E f \in E57Files, build \in Builds, xml \in XmlSections :
       \E c \in {0} \cup ChangedBytes(f) :
       \E x \in {read_exact(seek_physical([pos |-> 0, offset |-> 0], xml.offset),
                            f.file, xml.length)} :
          /\ x.kind = "ok"
          /\ e57 = [pc |-> "open", proto |-> f.proto, records |-> f.records,
                    file_offset |-> f.file_offset, build |-> build,
                    file |-> IF c = 0 THEN f.file
                             ELSE [f.file EXCEPT ![c] = (@ + 1) % 256],
                    changed |-> c, reader |-> x.reader, opened |-> x.reader,
                    validated |-> <<>>, points |-> <<>>, order |-> <<>>]
    /\ rd = Idle
    /\ mp = Idle
    /\ bs = Idle
    /\ it = Idle
    /\ tw = Idle
    /\ hd = Idle
    /\ pw = Idle
    /\ wd = Idle
    /\ pr = Idle

\* e57.validate_crc()
E57ValidateCrc ==
    /\ e57.pc = "open"
    /\ e57.validated = <<>>
    /\ \E v \in {validate_crc(e57.reader, e57.file)} :
           e57' = [e57 EXCEPT !.reader = v.reader,
                              !.validated = <<v.result>>,
                              !.order = Append(@, "validate_crc")]
    /\ UNCHANGED <<rd, mp, bs, it, tw, hd, pw, wd, pr>>

\* PointCloudReader::new(pc, &mut reader) and the iteration to its end.
E57Iterate ==
    /\ e57.pc = "open"
    /\ e57.points = <<>>
    /\ \E i \in {Iterate(e57.reader, e57.proto, e57.records, e57.file_offset,
                          e57.file, e57.build)} :
           e57' = [e57 EXCEPT !.reader = i.reader,
                              !.points = <<[kind |-> i.kind, err |-> i.err,
                                            items |-> i.items]>>,
                              !.order = Append(@, "iterate")]
    /\ UNCHANGED <<rd, mp, bs, it, tw, hd, pw, wd, pr>>

NextE57 == E57ValidateCrc \/ E57Iterate

SpecE57 == InitE57 /\ [][NextE57]_vars

\* C13: validate_crc returns Ok on a file whose every page ends with the
\* big-endian CRC32C of its 1020 payload bytes, and returns an error that
\* identifies the page when one payload byte of a page has been changed.
ValidateCrcFindsChangedPage ==
    e57.validated # <<>>
        => IF e57.changed = 0
           THEN e57.validated[1].kind = "Ok"
           ELSE e57.validated[1]
                    = [kind |-> "Invalid",
                       page |-> (e57.changed - 1) \div PHYSICAL_PAGE_SIZE]

\* What the iteration of the file yields on the reader as E57::new left it.
IterationAlone ==
    LET result(i) == [kind |-> i.kind, err |-> i.err, items |-> i.items]
    IN  Once(Iterate(e57.opened, e57.proto, e57.records, e57.file_offset,
                     e57.file, e57.build), result)

\* C14: an iteration yields the same items whether validate_crc was called
\* before it or not: validate_crc leaves nothing in the reader (stream
\* position, offset in the page) that a later iteration depends on.
ValidateCrcLeavesIterationAlone ==
    e57.points # <<>> => e57.points[1] = IterationAlone

\* validate_crc ran, and the iteration after it yielded a point.
IteratedAfterValidateCrc ==
    /\ e57.order = <<"validate_crc", "iterate">>
    /\ \E k \in 1..Len(e57.points[1].items) : e57.points[1].items[k].kind = "ok"

(***************************************************************************)
(* Further properties of the iterator                                      *)
(***************************************************************************)
\* Where a loader's cursor stands once a load has taken its bytes:
\* self.position.current += used_offset (8 for a double, 4 for a single).
CursorAfterTake(l) ==
    l.position.current
        + (CASE l.type = "Int" -> UsedOffset(l.offset, l.bits)
             [] l.type = "F64" -> 8
             [] OTHER -> 4)

\* C15: while the final record (read = records - 1) is decoded no loader
\* calls Position::load_next, also when its cursor has reached the end of
\* its slice; for every earlier record a loader whose cursor reaches or
\* passes the end of its slice pulls the next packet before its load
\* returns.
FinalRecordPullsNothing ==
    \A e \in Events :
        /\ e.rec = it.records - 1 => ~e.pulled
        /\ (/\ e.rec < it.records - 1
            /\ e.kind # "panic"
            /\ CursorAfterTake(e.before) >= e.before.position.end) => e.pulled

\* The load of a final record left the cursor at the end of its slice and
\* returned without a pull; the load of an earlier record pulled.
FinalRecordAtSliceEnd ==
    \E e \in Events, f \in Events :
        /\ e.rec = it.records - 1
        /\ e.kind = "ok"
        /\ CursorAfterTake(e.before) >= e.before.position.end
        /\ ~e.pulled
        /\ f.rec < it.records - 1
        /\ f.pulled

\* The loads are recorded in the order of the records, and those of one
\* pass over the readers in prototype order.
LoadsInRecordOrder ==
    \A i \in 1..Len(it.log), j \in 1..Len(it.log) :
        i < j => /\ it.log[i].rec <= it.log[j].rec
                 /\ (j = i + 1 /\ it.log[i].kind = "ok")
                        => IF it.log[i].reader < Len(it.readers)
                           THEN /\ it.log[j].rec = it.log[i].rec
                                /\ it.log[j].reader = it.log[i].reader + 1
                           ELSE /\ it.log[j].rec = it.log[i].rec + 1
                                /\ it.log[j].reader = 1

\* Every load_next of a loader reads its packet header after the header
\* that the loader's earlier load_next calls read.
PacketsVisitedOnce ==
    /\ \A e \in Events :
           e.pulled => e.hdr.at > it.readers[e.reader].first
    /\ \A i \in 1..Len(it.log), j \in 1..Len(it.log) :
           (i < j /\ it.log[i].reader = it.log[j].reader
                  /\ it.log[i].pulled /\ it.log[j].pulled)
               => it.log[i].hdr.at < it.log[j].hdr.at

\* C16: within one iterator all fields of record N are loaded, in
\* prototype order, before any field of record N + 1, and every loader's
\* Position.offset strictly increases with each load_next: no packet is
\* visited twice.
RecordsInOrderPacketsOnce ==
    /\ LoadsInRecordOrder
    /\ \A e \in Events :
           (e.pulled /\ e.kind = "ok")
               => e.after.position.offset > e.before.position.offset
    /\ PacketsVisitedOnce

(***************************************************************************)
(* Specification SpecTwo: two iterators over two point clouds of one       *)
(* memory map, their next() calls interleaved.  index_mmap is taken in     *)
(* its two halves: the call, which fills the scratch buffer BACKUP when    *)
(* the bytes lie on two pages, and the caller's copy_from_slice out of the *)
(* slice it got.  One thread runs a call of next to its end before the     *)
(* next call; two threads interleave freely.                               *)
(*   tw.mmap      the memory map                                           *)
(*   tw.scratch   how BACKUP is declared: "thread_local" (loader.rs) or    *)
(*                "static" (pc_reader.rs)                                  *)
(*   tw.threads   1 or 2                                                   *)
(*   tw.BACKUP    the scratch buffers, one per thread or one in all        *)
(*   tw.its       the two iterators: descriptor, readers, read, items,     *)
(*                and in a call: the reader at work (fi), the point (p),   *)
(*                the slice index_mmap returned                            *)
(*   tw.overlap   an index_mmap call filled a scratch buffer while the     *)
(*                other iterator held a slice of a scratch buffer          *)
(***************************************************************************)
ScratchKinds == {"thread_local", "static"}

\* The buffer index_mmap uses when iterator k calls it.
BackupOf(scratch, threads, k) ==
    IF scratch = "static" \/ threads = 1 THEN 1 ELSE k

\* index_mmap(mmap, start, end) up to its return: the scratch buffer
\* afterwards and the slice returned, of the buffer or of the map.
IndexMmapCall(mmap, start, end, BACKUP) ==
    IF IndexCrosses(start, end)
    THEN [BACKUP |-> [i \in 1..BACKUP_LEN |->
                         IF i <= end - start THEN index_mmap(mmap, start, end)[i]
                         ELSE BACKUP[i]],
          slice |-> [src |-> "BACKUP", from |-> 0, to |-> end - start]]
    ELSE [BACKUP |-> BACKUP,
          slice |-> [src |-> "mmap", from |-> logic_to_phys(start),
                     to |-> logic_to_phys(end - 1) + 1]]

\* The bytes of a slice when the caller reads them.
SliceBytes(slice, mmap, BACKUP) ==
    IF slice.src = "BACKUP" THEN SubSeq(BACKUP, 1, slice.to)
    ELSE MmapSlice(mmap, slice.from, slice.to)

NoSlice == [src |-> "", from |-> 0, to |-> 0]

\* The bytes a float loader takes at a time.
FloatSize(l) == IF l.type = "F64" THEN 8 ELSE 4

TwoProto == <<Rec("CartesianX", "Double", NoField)>>

\* Where the second point cloud lies: its first value begins 4 bytes
\* before the end of the second page.
SecondCloudAt == 2 * LOGICAL_PAGE_SIZE - 4 - 8 - SECTION_HEADER_SIZE

MaxTwoRecords == 2

\* The payload of a file with two point clouds: n1 records at base, n2
\* records at SecondCloudAt.
TwoCloudImage(base, n1, n2) ==
    LET first == LogicalImage(TwoProto, n1, 0, GoodPacket, base, "good")
        packets == PacketsOf(TwoProto, n2, 0, GoodPacket)
    IN  first \o Zeros(SecondCloudAt - Len(first))
            \o SectionHeader(1, SECTION_HEADER_SIZE + Len(packets),
                             logic_to_phys(SecondCloudAt + SECTION_HEADER_SIZE))
            \o packets

\* An iterator as PointCloudReader::new returns it.
NewIterator(records, file_offset, mmap, build) ==
    LET made(r) == [ok |-> r.kind = "ok", records |-> records, made |-> r.readers,
                    readers |-> r.readers, read |-> 0, items |-> <<>>,
                    pc |-> "idle", fi |-> 1, p |-> DefaultPoint, slice |-> NoSlice]
    IN  Once(PointCloudReaderNew(TwoProto, file_offset, mmap, build), made)

InitTwo ==
    /\ \E scratch \in ScratchKinds, threads \in 1..2, base \in FileOffsets,
          n2 \in 1..MaxTwoRecords, build \in Builds :
       \E mmap \in {Once(TwoCloudImage(base, MaxRecords, n2), MmapOf)} :
       \E a \in {NewIterator(MaxRecords, base, mmap, build)},
          b \in {NewIterator(n2, logic_to_phys(SecondCloudAt), mmap, build)} :
          /\ a.ok /\ b.ok
          /\ tw = [pc |-> "run", mmap |-> mmap, scratch |-> scratch,
                   threads |-> threads, build |-> build,
                   BACKUP |-> [t \in 1..2 |-> Zeros(BACKUP_LEN)],
                   its |-> <<a, b>>, overlap |-> FALSE]
    /\ rd = Idle
    /\ mp = Idle
    /\ bs = Idle
    /\ it = Idle
    /\ e57 = Idle
    /\ hd = Idle
    /\ pw = Idle
    /\ wd = Idle
    /\ pr = Idle

\* Iterator k may take a step: a thread that is inside a call of the other
\* iterator's next cannot begin one.
MayStep(k) ==
    \/ tw.threads = 2
    \/ tw.its[k].pc # "idle"
    \/ tw.its[3 - k].pc = "idle"

\* next of iterator k, up to the return of the index_mmap call that the
\* load of reader fi makes.
TwoIndex(k) ==
    LET me == tw.its[k]
        l == me.readers[me.fi].loader
        b == BackupOf(tw.scratch, tw.threads, k)
    IN  /\ tw.pc = "run"
        /\ me.pc \in {"idle", "index"}
        /\ me.read < me.records
        /\ MayStep(k)
        /\ \E c \in {IndexMmapCall(tw.mmap, l.position.current,
                                     l.position.current + FloatSize(l),
                                     tw.BACKUP[b])} :
               tw' = [tw EXCEPT !.BACKUP[b] = c.BACKUP,
                                !.its[k].pc = "copy",
                                !.its[k].slice = c.slice,
                                !.overlap = @ \/ (/\ c.slice.src = "BACKUP"
                                                  /\ tw.its[3 - k].pc = "copy"
                                                  /\ tw.its[3 - k].slice.src = "BACKUP")]
        /\ UNCHANGED <<rd, mp, bs, it, e57, hd, pw, wd, pr>>

\* tmp.copy_from_slice(slice) and the rest of the load, of the reader's
\* read, and after the last reader of next.  No record of these files
\* ends its slice before the last one: a load pulls no packet.
TwoCopy(k) ==
    LET me == tw.its[k]
        r == me.readers[me.fi]
        l == r.loader
        at_end == me.read >= me.records - 1
        tmp == SliceBytes(me.slice, tw.mmap, tw.BACKUP[BackupOf(tw.scratch, tw.threads, k)])
        moved == [l.position EXCEPT !.current = @ + FloatSize(l)]
        p == save(r.saver, me.p, convert(r.converter, tmp))
    IN  /\ tw.pc = "run"
        /\ me.pc = "copy"
        /\ ~MustPull(moved, at_end)
        /\ tw' = IF me.fi < Len(me.readers)
                 THEN [tw EXCEPT !.its[k].readers[me.fi].loader.position = moved,
                                 !.its[k].p = p,
                                 !.its[k].fi = me.fi + 1,
                                 !.its[k].slice = NoSlice,
                                 !.its[k].pc = "index"]
                 ELSE [tw EXCEPT !.its[k].readers[me.fi].loader.position = moved,
                                 !.its[k].p = DefaultPoint,
                                 !.its[k].fi = 1,
                                 !.its[k].slice = NoSlice,
                                 !.its[k].pc = "idle",
                                 !.its[k].read = me.read + 1,
                                 !.its[k].items =
                                     Append(@, [kind |-> "ok", err |-> "", point |-> p])]
        /\ UNCHANGED <<rd, mp, bs, it, e57, hd, pw, wd, pr>>

\* next of iterator k after its last record: None.
TwoEnd(k) ==
    LET me == tw.its[k]
    IN  /\ tw.pc = "run"
        /\ me.pc = "idle"
        /\ ~(me.read < me.records)
        /\ MayStep(k)
        /\ Len(me.items) = me.records
        /\ tw' = [tw EXCEPT !.its[k].items = Append(@, NoneItem)]
        /\ UNCHANGED <<rd, mp, bs, it, e57, hd, pw, wd, pr>>

NextTwo == \E k \in 1..2 : TwoIndex(k) \/ TwoCopy(k) \/ TwoEnd(k)

SpecTwo == InitTwo /\ [][NextTwo]_vars

\* What iterator k yields when it is the only one.
Alone(k) ==
    Collect(0, tw.its[k].made, tw.its[k].records, tw.mmap, tw.build, <<>>)

\* C17: two iterators over the same memory map whose next() calls are
\* interleaved, by one thread or by two, each yield the same sequence as
\* they would alone: no iterator reads the scratch buffer of index_mmap
\* while it holds bytes written for the other.
InterleavedIteratorsYieldAlone ==
    \A k \in 1..2 :
        tw.its[k].items = SubSeq(Alone(k), 1, Len(tw.its[k].items))

\* A field of the prototype whose range needs 57 to 63 bits.
WideFields ==
    {i \in 1..Len(it.proto) :
        /\ it.proto[i].dtype \in {"Integer", "ScaledInteger"}
        /\ BitsOf(wrapping_sub(it.proto[i].field.max, it.proto[i].field.min)) \in 57..63}

\* C18: an integer field whose range needs 57 to 63 bits is refused with
\* Error::Unimplemented before any value is extracted, so that the bytes a
\* load touches, ceil((bit offset + bits) / 8), never exceed the 8 bytes
\* of the buffer.
WideIntegersRefused ==
    /\ (it.pc # "new" /\ WideFields # {} /\ it.section = "good"
                       /\ it.last = GoodPacket)
           => /\ it.pc = "failed"
              /\ it.err = "Unimplemented"
              /\ it.log = <<>>
    /\ \A e \in Events :
           IntEvent(e) => EndOffset(e.before.offset, e.before.bits) <= TMP_LEN

\* The value the file holds for record r (1, 2, ...) of prototype field i.
StoredValue(i, r) ==
    wrapping_add(IntValue(it.proto[i], r), it.proto[i].field.min)

\* C19: a RowIndex field of type Integer is decoded into the point's row
\* and a ColumnIndex field of type Integer into its column; decoding
\* ColumnIndex never overwrites row.  (Stated for files whose every record
\* yields a point: the k-th point is record k.)
RowAndColumnDecoded ==
    (it.last = GoodPacket /\ \A item \in Items : item.kind \in {"ok", "none"}
                          /\ \A i \in 1..Len(it.proto) :
                                 it.proto[i].name # "CartesianInvalidState")
        => \A k \in Points, i \in 1..Len(it.proto) :
               /\ (it.proto[i].name = "RowIndex" /\ it.proto[i].dtype = "Integer")
                      => it.items[k].point.row = StoredValue(i, k)
               /\ (it.proto[i].name = "ColumnIndex" /\ it.proto[i].dtype = "Integer")
                      => it.items[k].point.column = StoredValue(i, k)

\* The prototype fields of the given kind of binding.
FieldsBound(kind) ==
    {i \in 1..Len(it.proto) : Binding(it.proto[i].name, it.proto[i].dtype).loader = kind}

\* C20: for every (name, data type) pair that has no decoder binding, the
\* construction of the reader either skips the field, the other fields
\* being read as without it, or returns the error value
\* Error::Unimplemented.
UnboundFieldSkippedOrRefused ==
    (it.pc # "new" /\ it.section = "good" /\ it.last = GoodPacket)
        => /\ FieldsBound("unimplemented") # {}
                  => (it.pc = "failed" /\ it.err = "Unimplemented")
           /\ (it.pc = "iter" /\ FieldsBound("unimplemented") = {})
                  => /\ Len(it.readers) + Cardinality(FieldsBound("skip"))
                            = Len(it.proto)
                     /\ \A j \in 1..Len(it.readers) :
                            (it.readers[j].loader.position.index + 1)
                                \notin FieldsBound("skip")

(***************************************************************************)
(* Header (header.rs): the 48 bytes at the start of a file.                *)
(***************************************************************************)
HEADER_SIZE == 48

\* b"ASTM-E57"
SIGNATURE == <<65, 83, 84, 77, 45, 69, 53, 55>>

MAJOR_VERSION == U32FromU8(1)

MINOR_VERSION == U32FromU8(0)

PAGE_SIZE == FromNat(PHYSICAL_PAGE_SIZE)

PageSizeBad_mut(page_size) == FALSE

\* header.page_size != PAGE_SIZE
PageSizeBad(page_size) == page_size # PAGE_SIZE

\* Header::read of a reader that holds `data`.  read_exact fails with an
\* IO error when fewer than 48 bytes are left.
HeaderRead(data) ==
    IF Len(data) < HEADER_SIZE THEN [kind |-> "Err", err |-> "IO"]
    ELSE LET header ==
                 [signature       |-> SubSeq(data, 1, 8),
                  major           |-> U32FromLe(SubSeq(data, 9, 12)),
                  minor           |-> U32FromLe(SubSeq(data, 13, 16)),
                  phys_length     |-> SubSeq(from_le_bytes(SubSeq(data, 17, 24)), 1, U64_BITS),
                  phys_xml_offset |-> SubSeq(from_le_bytes(SubSeq(data, 25, 32)), 1, U64_BITS),
                  xml_length      |-> SubSeq(from_le_bytes(SubSeq(data, 33, 40)), 1, U64_BITS),
                  page_size       |-> SubSeq(from_le_bytes(SubSeq(data, 41, 48)), 1, U64_BITS)]
         IN  IF header.signature # SIGNATURE THEN [kind |-> "Err", err |-> "Invalid"]
             ELSE IF header.major # MAJOR_VERSION THEN [kind |-> "Err", err |-> "Invalid"]
             ELSE IF header.minor # MINOR_VERSION THEN [kind |-> "Err", err |-> "Invalid"]
             ELSE IF PageSizeBad(header.page_size) THEN [kind |-> "Err", err |-> "Invalid"]
             ELSE [kind |-> "Ok", header |-> header]

\* The header of a two-page file whose XML section of 100 bytes starts at
\* physical offset 1024.
GoodHeader ==
    SIGNATURE \o <<1, 0, 0, 0>> \o <<0, 0, 0, 0>>
        \o <<0, 8, 0, 0, 0, 0, 0, 0>> \o <<0, 4, 0, 0, 0, 0, 0, 0>>
        \o <<100, 0, 0, 0, 0, 0, 0, 0>> \o <<0, 4, 0, 0, 0, 0, 0, 0>>

\* The byte values a header byte is replaced with, and the lengths of the
\* inputs.
HeaderBytes == {0, 1, 4, 255}

HeaderLens == {HEADER_SIZE - 1, HEADER_SIZE, HEADER_SIZE + 1}

\* The inputs: the good header with at most one byte replaced, cut or
\* extended to each length.
HeaderInputs ==
    {[i \in 1..n |-> IF i > HEADER_SIZE THEN 0
                     ELSE IF i = at THEN v ELSE GoodHeader[i]] :
         n \in HeaderLens, at \in 1..HEADER_SIZE, v \in HeaderBytes}

InitHeader ==
    /\ hd \in [pc : {"new"}, data : HeaderInputs]
    /\ rd = Idle
    /\ mp = Idle
    /\ bs = Idle
    /\ it = Idle
    /\ e57 = Idle
    /\ tw = Idle
    /\ pw = Idle
    /\ wd = Idle
    /\ pr = Idle

HeaderReadCall ==
    /\ hd.pc = "new"
    /\ hd' = [pc |-> "done", data |-> hd.data, result |-> HeaderRead(hd.data)]
    /\ UNCHANGED <<rd, mp, bs, it, e57, tw, pw, wd, pr>>

NextHeader == HeaderReadCall

SpecHeader == InitHeader /\ [][NextHeader]_vars

\* The little-endian bytes of the supported version and page size.
SupportedBytes(data) ==
    /\ SubSeq(data, 1, 8) = <<65, 83, 84, 77, 45, 69, 53, 55>>
    /\ SubSeq(data, 9, 12) = <<1, 0, 0, 0>>
    /\ SubSeq(data, 13, 16) = <<0, 0, 0, 0>>
    /\ SubSeq(data, 41, 48) = <<0, 4, 0, 0, 0, 0, 0, 0>>

\* C21: Header::read accepts a 48-byte header exactly when the signature is
\* ASTM-E57, major = 1, minor = 0 and page_size = 1024 (little-endian), and
\* returns those field values; any other signature, version or page size
\* yields Error::Invalid and no Header.
HeaderAcceptedWhenSupported ==
    (hd.pc = "done" /\ Len(hd.data) >= HEADER_SIZE)
        => IF SupportedBytes(hd.data)
           THEN /\ hd.result.kind = "Ok"
                /\ hd.result.header.signature = SubSeq(hd.data, 1, 8)
                /\ hd.result.header.major = [i \in 1..32 |-> IF i = 1 THEN 1 ELSE 0]
                /\ hd.result.header.minor = [i \in 1..32 |-> 0]
                /\ hd.result.header.page_size = [i \in 1..64 |-> IF i = 11 THEN 1 ELSE 0]
           ELSE hd.result = [kind |-> "Err", err |-> "Invalid"]

HeaderAccepted ==
    /\ hd.pc = "done"
    /\ hd.result.kind = "Ok"
    /\ hd.data # GoodHeader

(***************************************************************************)
(* PagedWriter (paged_writer.rs) over a writer that holds `file` and       *)
(* stands at `pos`: `offset` bytes of `page_buffer` are written payload.   *)
(* PAGE_PAYLOAD_SIZE is LOGICAL_PAGE_SIZE, PAGE_SIZE PHYSICAL_PAGE_SIZE.   *)
(***************************************************************************)
\* PagedWriter::new on an empty file.
PagedWriterNew ==
    [file |-> <<>>, pos |-> 0, offset |-> 0,
     page_buffer |-> SubSeq([i \in 1..LOGICAL_PAGE_SIZE |-> 0], 1, LOGICAL_PAGE_SIZE)]

\* self.writer.write_all(bytes) at the writer's position: the bytes there
\* are overwritten, the file grows where it ends.
WriteAllAt(file, pos, bytes) ==
    SubSeq(file, 1, pos) \o bytes \o SubSeq(file, pos + Len(bytes) + 1, Len(file))

\* The page buffer extended by its checksum:
\*   crc = self.crc.calculate(&self.page_buffer);
\*   self.page_buffer.extend_from_slice(&crc.to_be_bytes())
Sealed(page_buffer) ==
    LET sealed(bytes) == bytes \o to_be_bytes(calculate(bytes))
    IN  Once(page_buffer, sealed)

\* <PagedWriter as Write>::write(buf): the count it returns and the writer
\* afterwards.
write(w, buf) ==
    LET remaining_page_bytes == LOGICAL_PAGE_SIZE - w.offset
        writeable_bytes == Min(Len(buf), remaining_page_bytes)
        offset == w.offset + writeable_bytes
        copied ==
            SubSeq([i \in 1..LOGICAL_PAGE_SIZE |->
                       IF i > w.offset /\ i <= offset THEN buf[i - w.offset]
                       ELSE w.page_buffer[i]], 1, LOGICAL_PAGE_SIZE)
        full(page) ==
            [file |-> WriteAllAt(w.file, w.pos, Sealed(page)),
             pos |-> w.pos + PHYSICAL_PAGE_SIZE,
             offset |-> 0,
             page_buffer |-> PagedWriterNew.page_buffer]
        part(page) == [w EXCEPT !.offset = offset, !.page_buffer = page]
    IN  [n |-> writeable_bytes,
         w |-> IF offset >= LOGICAL_PAGE_SIZE THEN Once(copied, full)
               ELSE Once(copied, part)]

FlushNeeded_mut(offset) == TRUE

\* self.offset > 0
FlushNeeded(offset) == offset > 0

StreamAfterFlush_mut(pos) == pos + PHYSICAL_PAGE_SIZE

\* self.writer.seek(SeekFrom::Start(pos)): back to where the page starts.
StreamAfterFlush(pos) == pos

\* <PagedWriter as Write>::flush
flush(w) ==
    IF FlushNeeded(w.offset)
    THEN [w EXCEPT !.file = WriteAllAt(w.file, w.pos, Sealed(w.page_buffer)),
                   !.pos = StreamAfterFlush(w.pos)]
    ELSE w

\* <PagedWriter as Drop>::drop
drop(w) == flush(w)

MaxWrites == 3

MaxFlushes == 1

\* The lengths of the buffers handed to write: a few bytes, nearly a page,
\* more than a page.
WriteLens == {3, LOGICAL_PAGE_SIZE - 3, LOGICAL_PAGE_SIZE + 1}

\* The k-th logical byte the caller writes: never 0, so that padding shows.
ByteAt(k) == (k % 255) + 1

\* data is the logical bytes written so far; flushes records each flush:
\* the writer's position, the offset in the page and the logical length.
InitWriter ==
    /\ pw = [pc |-> "open", w |-> PagedWriterNew, data |-> <<>>, writes |-> 0,
             flushes |-> <<>>]
    /\ rd = Idle
    /\ mp = Idle
    /\ bs = Idle
    /\ it = Idle
    /\ e57 = Idle
    /\ tw = Idle
    /\ hd = Idle
    /\ wd = Idle
    /\ pr = Idle

WriterWrite ==
    /\ pw.pc = "open"
    /\ pw.writes < MaxWrites
    /\ \E len \in WriteLens :
           \E r \in {write(pw.w, [i \in 1..len |-> ByteAt(Len(pw.data) + i)])} :
               pw' = [pw EXCEPT !.w = r.w,
                                !.data = pw.data \o [i \in 1..r.n |-> ByteAt(Len(pw.data) + i)],
                                !.writes = pw.writes + 1]
    /\ UNCHANGED <<rd, mp, bs, it, e57, tw, hd, wd, pr>>

WriterFlush ==
    /\ pw.pc = "open"
    /\ Len(pw.flushes) < MaxFlushes
    /\ pw' = [pw EXCEPT !.w = flush(pw.w),
                        !.flushes = Append(pw.flushes,
                                           [pos |-> pw.w.pos, offset |-> pw.w.offset,
                                            len |-> Len(pw.data)])]
    /\ UNCHANGED <<rd, mp, bs, it, e57, tw, hd, wd, pr>>

WriterDrop ==
    /\ pw.pc = "open"
    /\ pw' = [pw EXCEPT !.pc = "dropped", !.w = drop(pw.w)]
    /\ UNCHANGED <<rd, mp, bs, it, e57, tw, hd, wd, pr>>

NextWriter == WriterWrite \/ WriterFlush \/ WriterDrop

SpecWriter == InitWriter /\ [][NextWriter]_vars

\* The 1020 payload bytes of page p (from 1) of the logical bytes: the
\* bytes written, then zeros.
PayloadOf(data, p) ==
    SubSeq([i \in 1..LOGICAL_PAGE_SIZE |->
               IF (p - 1) * LOGICAL_PAGE_SIZE + i <= Len(data)
               THEN data[(p - 1) * LOGICAL_PAGE_SIZE + i] ELSE 0], 1, LOGICAL_PAGE_SIZE)

\* Page p of the file is the payload of page p of the data and its
\* big-endian CRC32C.
PageHolds(file, data, p) ==
    LET holds(payload) ==
            SubSeq(file, (p - 1) * 1024 + 1, p * 1024)
                = payload \o to_be_bytes(calculate(payload))
    IN  Once(PayloadOf(data, p), holds)

\* ceil(n / 1020)
PagesOf(n) == (n + 1019) \div 1020

\* C22: after any sequence of writes totalling N logical bytes and the
\* drop, the file is exactly ceil(N / 1020) pages of 1024 bytes (none for
\* N = 0), each page its 1020 payload bytes, zero-padded after the last
\* written byte, followed by the big-endian CRC32C of those 1020 bytes.
DroppedFileIsWholePages ==
    pw.pc = "dropped"
        => /\ Len(pw.w.file) = 1024 * PagesOf(Len(pw.data))
           /\ \A p \in 1..PagesOf(Len(pw.data)) : PageHolds(pw.w.file, pw.data, p)

DroppedWithPartialPage ==
    /\ pw.pc = "dropped"
    /\ Len(pw.data) > 1020
    /\ Len(pw.data) % 1020 # 0

\* The flushes in the middle of a page that more writes followed, whose
\* page has been written again since: by a write that filled it or by the
\* drop.
RewrittenFlushes ==
    {k \in 1..Len(pw.flushes) :
        /\ pw.flushes[k].offset > 0
        /\ Len(pw.data) > pw.flushes[k].len
        /\ (pw.pc = "dropped" \/ pw.w.pos > pw.flushes[k].pos)}

\* C23: a flush in the middle of a page followed by more writes rewrites
\* the same page in place: no page is duplicated, the bytes written before
\* and after the flush are contiguous in that page's payload, and the
\* page's stored checksum is that of the final payload.
FlushedPageRewrittenInPlace ==
    \A k \in RewrittenFlushes :
        LET f == pw.flushes[k]
            p == (f.len \div 1020) + 1
        IN  /\ f.pos = 1024 * (p - 1)
            /\ Len(pw.w.file) <= 1024 * PagesOf(Len(pw.data))
            /\ pw.w.file[f.pos + f.offset] = pw.data[f.len]
            /\ pw.w.file[f.pos + f.offset + 1] = pw.data[f.len + 1]
            /\ PageHolds(pw.w.file, pw.data, p)

FlushedThenWritten ==
    /\ pw.pc = "dropped"
    /\ RewrittenFlushes # {}
    /\ Len(pw.data) % 1020 # 0

\* The number of bits the first n planned values take.
RECURSIVE PlannedBits(_, _)
PlannedBits(plan, n) ==
    IF n = 0 THEN 0 ELSE plan[n].field.bits + PlannedBits(plan, n - 1)

\* What holds of the buffer between the calls.
BufferAccounts ==
    bs.pc = "run"
        => /\ available([buffer |-> bs.buffer, offset |-> bs.offset])
                  = 8 * bs.fed - PlannedBits(bs.plan, Len(bs.outs))
           /\ bs.offset \in 0..7
           /\ Len(bs.buffer) = bs.fed - (PlannedBits(bs.plan, Len(bs.outs)) \div 8)

\* What a successful extract_int does to the buffer.
ExtractionTakesItsBits ==
    (bs.pc = "run" /\ bs'.pc = "run" /\ Len(bs'.outs) = Len(bs.outs) + 1)
        => LET bits == bs.plan[Len(bs'.outs)].field.bits
           IN  /\ Len(bs'.buffer) = Len(bs.buffer) - ((bs.offset + bits) \div 8)
               /\ bs'.buffer = SubSeq(bs.buffer, Len(bs.buffer) - Len(bs'.buffer) + 1,
                                      Len(bs.buffer))
               /\ bs'.offset = (bs.offset + bits) % 8

\* C24: after any sequence of append and successful extract_int calls,
\* available() is 8 times the bytes appended minus the bits extracted, the
\* bit offset is in 0..7, every wholly consumed byte is gone from the
\* buffer, and an extraction of `bits` bits removes (offset + bits) / 8
\* bytes and sets the offset to (offset + bits) mod 8.
BufferCountsBits == [](BufferAccounts) /\ [][ExtractionTakesItsBits]_vars

ExtractedAcrossBytes ==
    /\ bs.pc = "run"
    /\ bs.last = "some"
    /\ Len(bs.outs) = 2
    /\ bs.offset # 0
    /\ Len(bs.buffer) = 1
    /\ bs.fed > 2

\* A step that is an extraction: the bytes fed stay, something else changes.
Extracts == bs.pc = "run" /\ bs'.fed = bs.fed /\ bs' # bs

\* The step of an extraction: with fewer bits available than the value
\* has it returns None and leaves buffer and offset alone; made again after
\* a None, with enough bits, it yields the value that was packed.
RefusedOrServed ==
    Extracts
        => LET next == bs.plan[Len(bs.outs) + 1]
           IN  IF next.field.bits > available([buffer |-> bs.buffer, offset |-> bs.offset])
               THEN /\ bs'.pc = "run"
                    /\ bs'.last = "none"
                    /\ bs'.buffer = bs.buffer
                    /\ bs'.offset = bs.offset
                    /\ bs'.outs = bs.outs
               ELSE bs.refused
                        => /\ bs'.last = "some"
                           /\ bs'.outs = Append(bs.outs, Expected(next))

\* C25: an extraction that asks for more bits than available() (extract_int
\* of a wider value, extract_f32 with fewer than 32 bits, extract_f64 with
\* fewer than 64) returns None and leaves the buffer and the bit offset
\* unchanged, so that the same extraction yields the expected value once
\* enough bytes are appended.
ShortExtractionLeavesBuffer == [][RefusedOrServed]_vars

\* The same where no value is wider than 56 bits or is a float.
ShortExtractionLeavesBufferTo56 ==
    [][(\A i \in 1..Len(bs.plan) :
            bs.plan[i].field.bits <= 56 \/ bs.plan[i].dtype # "Integer")
           => RefusedOrServed]_vars

(***************************************************************************)
(* The width and the mask of an integer field, as IntLoader::new           *)
(* (loader.rs), ByteStreamReadBuffer::extract_int (bs_read.rs) and         *)
(* unpack_int (bitpack.rs) compute them.  An f64 that is a whole number    *)
(* of at most 2^63 is modelled by that number.                             *)
(***************************************************************************)
\* 2^(k - 1): bit k alone.
Bit(k) == [i \in Bits64 |-> IF i = k THEN 1 ELSE 0]

\* The position of the highest bit of a # 0.
Top(a) == SetMax({i \in Bits64 : a[i] = 1})

\* `a as f64` of a whole number below 2^63, and an f64 sum of whole
\* numbers: the 53 highest bits are kept, the rest is rounded to nearest,
\* ties to even.
AsF64(a) ==
    IF a = Zero64 \/ Top(a) <= 53 THEN a
    ELSE LET cut == Top(a) - 53
             kept == [i \in Bits64 |-> IF i <= cut THEN 0 ELSE a[i]]
             tail == \E i \in 1..(cut - 1) : a[i] = 1
             up == a[cut] = 1 /\ (tail \/ a[cut + 1] = 1)
         IN  IF up THEN wrapping_add(kept, Bit(cut + 1)) ELSE kept

\* The libm behind f64::log2: "nearest" returns the f64 nearest to the
\* logarithm, "above" never returns a whole number k for an argument above
\* 2^k.
Libms == {"nearest", "above"}

\* log2(x) rounds to the whole number k for 2^k < x when the 52 bits of x
\* below its highest are at most 11: k + 1.4427 * m * 2^-52 is then nearer
\* to k than to the next f64 after k, which is k + 2^-47 for k in 32..63.
NearPowerOfTwo(x) ==
    /\ Top(x) > 49
    /\ \A i \in 1..(Top(x) - 1) : (x[i] = 1 => i >= Top(x) - 52 /\ i <= Top(x) - 49)
    /\ LET m(j) == IF Top(x) - 53 + j >= 1 THEN x[Top(x) - 53 + j] ELSE 0
       IN  m(1) + 2 * m(2) + 4 * m(3) + 8 * m(4) <= 11

\* f64::ceil(f64::log2(x)) as u64 of a whole number x >= 1
CeilLog2(x, libm) ==
    IF x = Bit(Top(x)) THEN Top(x) - 1
    ELSE IF libm = "nearest" /\ NearPowerOfTwo(x) THEN Top(x) - 1
    ELSE Top(x)

\* f64::ceil(f64::log2(range as f64 + 1.0)) as u64.  A negative range
\* gives the logarithm of a number <= 0, NaN or -inf, which `as u64` turns
\* to 0.
BitSizeOf(range, libm) ==
    IF IsNeg(range) THEN 0
    ELSE CeilLog2(AsF64(wrapping_add(AsF64(range), FromNat(1))), libm)

\* bit_size > 56 && bit_size != 64
BitSizeRefused(bit_size) == bit_size > 56 /\ bit_size # 64

\* range, bits and mask of IntLoader::new and of extract_int.
WidthOfLoader(min, max, build) ==
    LET range == RangeOf(min, max, build)
        bits == BitsOf(range.v)
        mask == MaskOf(bits, build)
    IN  IF ~range.ok \/ ~mask.ok THEN [kind |-> "panic"]
        ELSE [kind |-> "ok", bits |-> bits, mask |-> mask.v]

\* range, bit_size and mask of unpack_int.
WidthOfUnpack(min, max, build, libm) ==
    LET range == RangeOf(min, max, build)
        bit_size == BitSizeOf(range.v, libm)
        mask == MaskOf(bit_size, build)
    IN  IF ~range.ok THEN [kind |-> "panic"]
        ELSE IF BitSizeRefused(bit_size) THEN [kind |-> "Unimplemented"]
        ELSE IF ~mask.ok THEN [kind |-> "panic"]
        ELSE [kind |-> "ok", bits |-> bit_size, mask |-> mask.v]

\* The ranges of a width w: the least (2^(w-1)), the least plus one, the
\* greatest (2^w - 1).
RangesOfWidth(w) ==
    {Bit(w), Ones(w)} \cup (IF w > 1 THEN {wrapping_add(Bit(w), FromNat(1))} ELSE {})

\* The lower limits: any of three for a width that leaves room, the least
\* i64 for one that does not.
MinsOfWidth(w) ==
    IF w < U64_BITS - 1 THEN {Zero64, FromNat(5), wrapping_sub(Zero64, FromNat(3))}
    ELSE {I64_MIN}

InitWidth ==
    /\ \E w \in 1..U64_BITS :
           \E range \in RangesOfWidth(w), min \in MinsOfWidth(w),
              build \in Builds, libm \in Libms :
               wd = [pc |-> "new", w |-> w, min |-> min,
                     max |-> wrapping_add(min, range), build |-> build,
                     libm |-> libm]
    /\ rd = Idle
    /\ mp = Idle
    /\ bs = Idle
    /\ it = Idle
    /\ e57 = Idle
    /\ tw = Idle
    /\ hd = Idle
    /\ pw = Idle
    /\ pr = Idle

\* IntLoader::new
WidthIntLoaderNew ==
    /\ wd.pc = "new"
    /\ wd' = [wd EXCEPT !.pc = "IntLoader"] @@
                 [got |-> WidthOfLoader(wd.min, wd.max, wd.build)]
    /\ UNCHANGED <<rd, mp, bs, it, e57, tw, hd, pw, pr>>

\* ByteStreamReadBuffer::extract_int
WidthExtractInt ==
    /\ wd.pc = "new"
    /\ wd' = [wd EXCEPT !.pc = "extract_int"] @@
                 [got |-> WidthOfLoader(wd.min, wd.max, wd.build)]
    /\ UNCHANGED <<rd, mp, bs, it, e57, tw, hd, pw, pr>>

\* unpack_int
WidthUnpackInt ==
    /\ wd.pc = "new"
    /\ wd' = [wd EXCEPT !.pc = "unpack_int"] @@
                 [got |-> WidthOfUnpack(wd.min, wd.max, wd.build, wd.libm)]
    /\ UNCHANGED <<rd, mp, bs, it, e57, tw, hd, pw, pr>>

NextWidth == WidthIntLoaderNew \/ WidthExtractInt \/ WidthUnpackInt

SpecWidth == InitWidth /\ [][NextWidth]_vars

\* The decoder came up with width w and the w low bits as the mask.
WidthIsRight ==
    /\ wd.got.kind = "ok"
    /\ wd.got.bits = wd.w
    /\ wd.got.mask = [i \in 1..64 |-> IF i <= wd.w THEN 1 ELSE 0]

\* C26: for every integer range with min < max of a width 1..56 or 64, the
\* width the three integer decoders use equals ceil(log2(max - min + 1)),
\* and the mask has exactly that many low bits set.
DecodersAgreeOnWidth ==
    (wd.pc \notin {"idle", "new"} /\ (wd.w <= 56 \/ wd.w = 64)) => WidthIsRight

\* The part that holds: IntLoader::new and extract_int for the widths 1..56.
LoaderWidthTo56 ==
    (wd.pc \in {"IntLoader", "extract_int"} /\ wd.w <= 56) => WidthIsRight

\* unpack_int, for the ranges 2^w - 1 of the widths 1..56.
UnpackWidthOfOnes ==
    (wd.pc = "unpack_int" /\ wd.w <= 56
        /\ wrapping_sub(wd.max, wd.min) = Ones(wd.w)) => WidthIsRight

\* The lengths of the byte streams of packet k (1 or 2) of the file, as it
\* was laid out.
SliceLens(k) ==
    LET len(j) == Len(StreamOf(it.proto[j], it.records))
        extra == IF it.last.extra = 1 THEN <<1>> ELSE <<>>
    IN  IF it.split = 0
        THEN [j \in 1..Len(it.proto) |-> len(j)] \o extra
        ELSE IF k = 1
        THEN [j \in 1..Len(it.proto) |-> Min(it.split, len(j))]
        ELSE [j \in 1..Len(it.proto) |-> len(j) - Min(it.split, len(j))] \o extra

RECURSIVE SumTo(_, _)
SumTo(lens, n) == IF n = 0 THEN 0 ELSE lens[n] + SumTo(lens, n - 1)

\* The packets of the file and the logical offset of packet k: the first
\* follows the section header, the second the first with its padding.
PacketNumbers == IF it.split = 0 THEN {1} ELSE {1, 2}

PacketAt(k) ==
    LET first == phys_to_logic(it.file_offset) + 32
        lens == SliceLens(1)
    IN  IF k = 1 THEN first
        ELSE first + ((6 + 2 * Len(lens) + SumTo(lens, Len(lens)) + 3) \div 4) * 4

\* The window the claim gives the field of index i (from 0) in packet k,
\* with `carried` bytes carried over.
WindowOf(k, i, carried) ==
    LET lens == SliceLens(k)
        data == PacketAt(k) + 6 + 2 * Len(lens)
    IN  [current |-> data + SumTo(lens, i) + carried, end |-> data + SumTo(lens, i + 1)]

\* The bytes by which the load went beyond the end of its slice.
CarriedOf(e) ==
    e.before.position.current - e.before.position.end
        + (IF IntEvent(e) THEN (e.before.offset + FieldOf(e).field.bits) \div 8
           ELSE IF FieldOf(e).dtype = "Double" THEN 8 ELSE 4)

\* The pulls of a packet of the file that went well.
PacketPulls ==
    {e \in Events : e.pulled /\ e.kind = "ok"
                        /\ \E k \in PacketNumbers : PacketAt(k) = e.hdr.at}

\* C27: for a data packet at logical offset S with n byte streams of the
\* lengths len_0..len_(n-1), Position::load_next for the field index i sets
\* the window to start at S + 6 + 2n + (len_0 + ... + len_(i-1)) plus
\* the bytes carried over, and to end at S + 6 + 2n + (len_0 + ... + len_i);
\* the windows of different fields of one packet are disjoint and in
\* prototype order.
WindowsFollowSliceTable ==
    /\ \A e \in PacketPulls :
           \A k \in PacketNumbers :
               PacketAt(k) = e.hdr.at
                   => LET w == WindowOf(k, e.before.position.index, CarriedOf(e))
                      IN  /\ e.after.position.current = w.current
                          /\ e.after.position.end = w.end
    /\ (it.pc = "iter" /\ it.log = <<>>)
           => \A r \in 1..Len(it.readers) :
                  it.readers[r].first = PacketAt(1)
                      => LET w == WindowOf(1, it.readers[r].loader.position.index, 0)
                         IN  /\ it.readers[r].loader.position.current = w.current
                             /\ it.readers[r].loader.position.end = w.end
    /\ \A e, f \in PacketPulls :
           (e.hdr.at = f.hdr.at
               /\ e.before.position.index < f.before.position.index)
               => e.after.position.end <= f.after.position.current

\* A field that is not the first pulled the second packet with bytes
\* carried over.
LaterFieldPulledWithCarry ==
    \E e \in PacketPulls :
        /\ e.before.position.index > 0
        /\ CarriedOf(e) > 0
        /\ e.hdr.at = PacketAt(2)
        /\ \E f \in PacketPulls :
               f.hdr.at = e.hdr.at /\ f.before.position.index < e.before.position.index

(***************************************************************************)
(* Specification SpecPaged: a PagedReader on a file of three pages, moved  *)
(* by seek_physical, read, skip and align.  Beside it runs a second        *)
(* reader that is moved the same way, except that where the first skips    *)
(* n bytes the second reads n bytes and drops them.                        *)
(*   pr.r, pr.alt     the reader and the second reader                     *)
(*   pr.out, pr.altout   the bytes the latest read of each returned        *)
(*   pr.fair    every skip so far started at an offset of at most 1020     *)
(*   pr.skipped the length of the latest skip since the latest seek        *)
(*   pr.ops     the number of calls so far                                 *)
(***************************************************************************)
\* PagedReader::align
align(r) ==
    LET off_alignment == (ALIGNMENT_SIZE - (r.offset % ALIGNMENT_SIZE)) % ALIGNMENT_SIZE
    IN  [pos |-> r.pos + off_alignment, offset |-> r.offset + off_alignment]

skip_mut(r, length) ==
    [pos |-> r.pos + length, offset |-> (r.offset + length) % PHYSICAL_PAGE_SIZE]

\* PagedReader::skip
skip(r, length) ==
    LET skips == (r.offset + length) \div (PHYSICAL_PAGE_SIZE - CHECKSUM_SIZE)
        physical == length + skips * CHECKSUM_SIZE
    IN  [pos |-> r.pos + physical, offset |-> (r.offset + physical) % PHYSICAL_PAGE_SIZE]

PagedPages == 3

\* The file: payload bytes are 1..251 by their place in the payload, the
\* four checksum bytes of a page are 0.
PagedFile ==
    SubSeq([p \in 1..(PagedPages * PHYSICAL_PAGE_SIZE) |->
               IF (p - 1) % PHYSICAL_PAGE_SIZE >= LOGICAL_PAGE_SIZE THEN 0
               ELSE 1 + (phys_to_logic(p - 1) % 251)],
           1, PagedPages * PHYSICAL_PAGE_SIZE)

MaxPagedOps == 4

\* The offsets seek_physical is called with, the lengths of the buffers
\* read is called with, the lengths skip is called with.
SeekOffsets ==
    {0, LOGICAL_PAGE_SIZE - 3, LOGICAL_PAGE_SIZE, LOGICAL_PAGE_SIZE + 1,
     PHYSICAL_PAGE_SIZE + 7, 2 * PHYSICAL_PAGE_SIZE + LOGICAL_PAGE_SIZE - 2}

ReadBufs == {1, 6, LOGICAL_PAGE_SIZE, PHYSICAL_PAGE_SIZE}

SkipLens ==
    {0, 1, 3, LOGICAL_PAGE_SIZE - 1, LOGICAL_PAGE_SIZE, LOGICAL_PAGE_SIZE + 1,
     2 * LOGICAL_PAGE_SIZE, 2 * LOGICAL_PAGE_SIZE + 5}

\* PagedReader::new leaves the reader it wraps at the end of the file
\* (seek(SeekFrom::End(0))) with offset 0.
InitPaged ==
    /\ pr = [pc |-> "run",
             r |-> [pos |-> Len(PagedFile), offset |-> 0],
             alt |-> [pos |-> Len(PagedFile), offset |-> 0],
             out |-> <<>>, altout |-> <<>>, fair |-> TRUE, skipped |-> 0, ops |-> 0,
             last |-> "new"]
    /\ rd = Idle
    /\ mp = Idle
    /\ bs = Idle
    /\ it = Idle
    /\ e57 = Idle
    /\ tw = Idle
    /\ hd = Idle
    /\ pw = Idle
    /\ wd = Idle

PagedSeek ==
    /\ pr.pc = "run"
    /\ pr.ops < MaxPagedOps
    /\ \E offset \in SeekOffsets :
           pr' = [pr EXCEPT !.r = seek_physical(pr.r, offset),
                            !.alt = seek_physical(pr.alt, offset),
                            !.skipped = 0,
                            !.ops = pr.ops + 1, !.last = "seek"]
    /\ UNCHANGED <<rd, mp, bs, it, e57, tw, hd, pw, wd>>

PagedReadCall ==
    /\ pr.pc = "run"
    /\ pr.ops < MaxPagedOps
    /\ \E len \in ReadBufs :
           \E x \in {PagedRead(pr.r, PagedFile, len)},
              y \in {PagedRead(pr.alt, PagedFile, len)} :
               pr' = [pr EXCEPT !.pc = IF x.kind = "panic" THEN "panic" ELSE "run",
                                !.r = x.reader, !.alt = y.reader,
                                !.out = x.bytes, !.altout = y.bytes,
                                !.ops = pr.ops + 1, !.last = "read"]
    /\ UNCHANGED <<rd, mp, bs, it, e57, tw, hd, pw, wd>>

PagedSkip ==
    /\ pr.pc = "run"
    /\ pr.ops < MaxPagedOps
    /\ \E n \in SkipLens :
           \E y \in {read_exact(pr.alt, PagedFile, n)} :
               pr' = [pr EXCEPT !.r = skip(pr.r, n), !.alt = y.reader,
                                !.fair = pr.fair /\ pr.r.offset <= LOGICAL_PAGE_SIZE,
                                !.skipped = n,
                                !.ops = pr.ops + 1, !.last = "skip"]
    /\ UNCHANGED <<rd, mp, bs, it, e57, tw, hd, pw, wd>>

PagedAlign ==
    /\ pr.pc = "run"
    /\ pr.ops < MaxPagedOps
    /\ pr' = [pr EXCEPT !.r = align(pr.r), !.alt = align(pr.alt),
                        !.ops = pr.ops + 1, !.last = "align"]
    /\ UNCHANGED <<rd, mp, bs, it, e57, tw, hd, pw, wd>>

NextPaged == PagedSeek \/ PagedReadCall \/ PagedSkip \/ PagedAlign

SpecPaged == InitPaged /\ [][NextPaged]_vars

\* C28: after any sequence of seek_physical, read, skip and align calls the
\* offset in the page is at most page_size - 4, so that read never reaches
\* its unreachable!() and never returns a checksum byte as payload.
OffsetStaysInPayload ==
    /\ pr.pc # "panic"
    /\ pr.pc = "run" => pr.r.offset <= 1020
    /\ pr.pc = "run" => \A i \in 1..Len(pr.out) : pr.out[i] # 0

\* The same for the calls that do not seek into the checksum of a page.
OffsetStaysInPayloadOfSeeks ==
    [][(pr.pc = "run" /\ pr.r.offset <= 1020
           /\ ~(pr'.last = "seek" /\ pr'.ops = pr.ops + 1 /\ pr'.r.pos % 1024 > 1020))
          => (pr'.pc = "run" /\ pr'.r.offset <= 1020
                 /\ \A i \in 1..Len(pr'.out) : pr'.out[i] # 0)]_vars

\* C29: skip(n) leaves the reader where reading and dropping n payload
\* bytes leaves it: for every offset 0..=1020 it starts at and every n, the
\* reads that follow return the same bytes.
SkipIsReadAndDrop ==
    (pr.pc = "run" /\ pr.fair) => pr.out = pr.altout

\* A read after a skip that went over the end of a page returned bytes.
ReadAfterLongSkip ==
    /\ pr.pc = "run"
    /\ pr.fair
    /\ pr.last = "read"
    /\ pr.out # <<>>
    /\ pr.skipped >= 1020
(***************************************************************************)
(* The passes of the loop of next.  A pass is for the record self.read    *)
(* and loads from the readers in order, so the loads a call made tell     *)
(* its passes.                                                             *)
(***************************************************************************)
\* The loads the call of next that made this step recorded.
LoadsOfCall == SubSeq(it'.log, Len(it.log) + 1, Len(it'.log))

\* The step is a call of next().
CallOfNext == it.pc = "iter" /\ Len(it'.items) = Len(it.items) + 1

\* What the call returned.
ItemOfCall == it'.items[Len(it'.items)]

\* The loads of a call are those of passes for the records read, read + 1,
\* ... in order, none for a record past the last, and within a pass every
\* reader loads once at most, in the order of the prototype.
PassesInOrder ==
    \A i \in 1..Len(LoadsOfCall) :
        /\ LoadsOfCall[i].rec >= it.read
        /\ LoadsOfCall[i].rec < it.records
        /\ LoadsOfCall[i].rec <= it'.read
        /\ LoadsOfCall[i].reader \in 1..Len(it.readers)
        /\ i > 1 =>
              \/ /\ LoadsOfCall[i].rec = LoadsOfCall[i - 1].rec
                 /\ LoadsOfCall[i].reader = LoadsOfCall[i - 1].reader + 1
              \/ /\ LoadsOfCall[i].rec = LoadsOfCall[i - 1].rec + 1
                 /\ LoadsOfCall[i].reader = 1

\* How a call ends: with a point after a pass that counted its record,
\* with None once every record is counted, or in the pass whose load
\* failed, which counts no record.
CallEnds ==
    /\ it'.read >= it.read
    /\ it'.read <= it.records
    /\ ItemOfCall.kind = "ok" => it'.read > it.read
    /\ ItemOfCall.kind = "none" => it'.read = it.records
    /\ ItemOfCall.kind \in {"err", "panic"} => it'.read < it.records

\* C30: every call of next ends after at most records - read passes: each
\* pass either ends the call or counts one more record, the count never
\* exceeds pc.records, and for records = 0 the call returns None without a
\* load and without the subtraction records - 1.
NextCallTerminates ==
    [][CallOfNext =>
          /\ PassesInOrder
          /\ CallEnds
          /\ it.records = 0 =>
                (ItemOfCall.kind = "none" /\ it'.log = <<>> /\ it'.read = 0)]_vars

\* Every record is counted and None returned though fewer points than
\* records were returned: a pass skipped an invalid record and the loop
\* went on.
SkippedToTheEnd ==
    /\ it.pc = "iter"
    /\ it.items # <<>>
    /\ it.items[Len(it.items)].kind = "none"
    /\ \E e \in Events : e.rec = it.records - 1
    /\ \E i \in 1..Len(it.items) : it.items[i].kind = "ok"
    /\ Cardinality({i \in 1..Len(it.items) : it.items[i].kind = "ok"}) < it.records

\* The first call for a point cloud without records, in a debug build.
NoneOfNoRecords ==
    /\ it.pc = "iter"
    /\ it.records = 0
    /\ it.build = "debug"
    /\ Len(it.items) = 1

====
